---- MODULE Spec2Model ----
(***************************************************************************)
(* Verification model of monitor-ggal: the prediction tracker              *)
(* (prediction_tracker.py), the price monitor's history (monitor.py), the  *)
(* forecasters (forecaster.py, automl_forecaster.py,                       *)
(* ensemble_forecaster.py) and the two drivers that run the                *)
(* forecast -> track -> validate pipeline (app.py, cli.py).                *)
(*                                                                         *)
(* Conventions.  Time is in seconds; the clock only takes the values of    *)
(* Instants.  Prices are integers (cents).  A Python value that may be     *)
(* None is a tuple: <<>> is None and <<v>> is the value v.  A Python dict  *)
(* is a TLA+ record whose domain is the set of its keys, so a missing key  *)
(* is a field outside DOMAIN.  A quotient the code computes in floating    *)
(* point is kept exact, as the pair <<numerator, denominator>>.            *)
(***************************************************************************)
EXTENDS Integers, Sequences, FiniteSets, TLC

(***************************************************************************)
(* Bounds of the model.                                                    *)
(***************************************************************************)
\* number of clock steps of 30 seconds a behaviour may take
MaxTicks == 3
\* max_predictions of the tracker under analysis (a constructor argument)
MaxPredictions == 2
\* number of add_prediction calls that may succeed in a behaviour
MaxAdds == 3
\* number of samples the polling loop may append in a behaviour
MaxPolls == 2
\* number of records a behaviour of a driver (app.py, cli.py) may create
MaxDriverAdds == 1
\* number of threads PriceMonitor.start may spawn in a behaviour
MaxStarts == 2
\* number of measurements fed to an estimator in a behaviour
MaxMeasurements == 4

(***************************************************************************)
(* Program constants.                                                      *)
(***************************************************************************)
\* prediction_tracker.py:137  tolerance = timedelta(seconds=30)
Tolerance == 30
\* monitor.py:34  deque(maxlen=1000)
HistMaxLen == 1000

\* forecaster.py:11, app.py:101, cli.py:53, ensemble_forecaster.py:25 and 47
KalmanMinSamples == 10
\* ensemble_forecaster.py:17, automl_forecaster.py:16, cli.py:50
EnsembleMinSamples == 30
\* automl_forecaster.py:32  retrain every 10 new points
RetrainEvery == 10
\* ensemble_forecaster.py:17  horizon_minutes=5
HorizonMinutes == 5
\* monitor.py:175  intervalo=10
PollInterval == 10
\* gunicorn_config.py:29  threads = 2
GunicornThreads == 2

Instants == {30 * k : k \in 0..MaxTicks}
PriceSet == {100, 101}
BasePrice == CHOOSE p \in PriceSet : \A q \in PriceSet : p <= q
HorizonSet == {1}
\* horizons=[1, 5, 10] of GET /api/forecast (app.py:186)
Horizons == {1, 5, 10}
\* scores handed to update_weights
ScoreSet == {-3, -1, 0, 1, 3}

None == <<>>
Some(v) == <<v>>

Abs(x) == IF x < 0 THEN -x ELSE x

VARIABLES
    now,                    \* datetime.now(), in seconds
    historial,              \* PriceMonitor.historial
    polls,                  \* number of samples appended so far
    predictions,            \* PredictionTracker.predictions
    validated_predictions,  \* PredictionTracker.validated_predictions
    adds,                   \* number of records created so far
    kalman_weight,          \* EnsembleForecaster.kalman_weight
    automl_weight,          \* EnsembleForecaster.automl_weight
    automl_model,           \* AutoMLForecaster.model: None or the fitted size
    last_train_size,        \* AutoMLForecaster.last_train_size
    program,                \* the process that owns the tracker: "app", "cli" or "lib"
    use_automl,             \* MultiSymbolCLI.use_automl
    last_forecasts,         \* MultiSymbolCLI.last_forecasts[key]: None if absent
    forecasting_running,    \* MultiSymbolCLI.forecasting_running
    cycle_iter,             \* parity of the iterations of the forecasting loop
    running,                \* PriceMonitor.running
    api_type,               \* PriceMonitor.api_type: "stock" or "crypto"
    starts,                 \* number of polling threads spawned so far
    stopped,                \* stop() was called and start() was not called since
    mon_pc,                 \* where each polling thread is in monitorear_background
    mon_precio,             \* each polling thread's local variable precio
    mon_iter,               \* parity of the iterations of the polling loop
    handler_pc,             \* where each request thread is in GET /api/forecast
    handler_forecasts,      \* each request thread's local variable forecasts
    sym,                    \* per symbol key: monitors[key].historial, trackers[key]
                            \* and last_forecasts[key] of MultiSymbolCLI
    current_symbol,         \* MultiSymbolCLI.current_symbol
    loop_pos,               \* the key the forecasting loop's `for` is at
    kf,                     \* the estimator: initialized, x (price, velocity), P
    automl_trained,         \* what self.model was fitted on: the last price of
                            \* the series, and the samples appended since
    val,                    \* per thread inside validate_predictions: where it
                            \* is, its loop index, its historial_dict and count
    last                    \* the last call: its name, inputs and outcome

\* the number of records the behaviour may still create
AddLimit == IF program = "lib" THEN MaxAdds ELSE MaxDriverAdds

monitorVars == <<historial, polls>>
trackerVars == <<predictions, validated_predictions, adds>>
ensembleVars == <<kalman_weight, automl_weight>>
automlVars == <<automl_model, last_train_size>>
cliVars == <<program, use_automl, last_forecasts, forecasting_running>>
threadVars == <<running, api_type, starts, stopped, mon_pc, mon_precio, mon_iter>>
\* the state of the tracker, the forecasters and the single-symbol drivers
coreVars == <<now, monitorVars, trackerVars, ensembleVars, automlVars, cliVars, cycle_iter>>
\* the state the single-symbol, one-step-per-call actions leave alone
handlerVars == <<handler_pc, handler_forecasts>>
symbolVars == <<sym, current_symbol, loop_pos>>
lateVars == <<kf, automl_trained, val>>
extVars == <<threadVars, handlerVars, symbolVars, lateVars>>

vars == <<now, historial, polls, predictions, validated_predictions, adds,
          kalman_weight, automl_weight, automl_model, last_train_size,
          program, use_automl, last_forecasts, forecasting_running, cycle_iter,
          running, api_type, starts, stopped, mon_pc, mon_precio, mon_iter,
          handler_pc, handler_forecasts, sym, current_symbol, loop_pos,
          kf, automl_trained, val, last>>

(***************************************************************************)
(* collections.deque(maxlen=n).append                                      *)
(***************************************************************************)
\* a deque that forgets its maxlen
DequeAppendNoEvict(d, x, maxlen) == Append(d, x)

DequeAppend(d, x, maxlen) ==
    IF Len(d) >= maxlen THEN Append(Tail(d), x) ELSE Append(d, x)

(***************************************************************************)
(* PriceMonitor (monitor.py): the two price sources.  A fetch returns the  *)
(* record [precio, exc]: precio is what obtener_precio returns (None or a  *)
(* sample) and exc the exception the fetch caught on the way, if any.      *)
(* A JSON value is the tagged pair <<"num", n>> or <<"str", s>>; prices    *)
(* are in cents.                                                           *)
(***************************************************************************)
Num(n) == <<"num", n>>
Str(s) == <<"str", s>>
IsNum(v) == v[1] = "num"

\* the dict with the keys whose value is not None
JsonDict(c, pc, lastPrice) ==
    LET keys == (IF c = None THEN {} ELSE {"c"})
                  \cup (IF pc = None THEN {} ELSE {"pc"})
                  \cup (IF lastPrice = None THEN {} ELSE {"lastPrice"})
    IN  [k \in keys |-> IF k = "c" THEN c ELSE IF k = "pc" THEN pc ELSE lastPrice]

\* data.get(key, default)
DictGet(data, key, default) == IF key \in DOMAIN data THEN data[key] ELSE default

\* float(v) of a JSON value: None stands for ValueError
FloatOf(v) ==
    IF IsNum(v) THEN Some(v[2])
    ELSE IF v[2] = "1.00" THEN Some(100)
    ELSE IF v[2] = "1.01" THEN Some(101)
    ELSE IF v[2] = "0.00000000" THEN Some(0)
    ELSE None

\* lines 53-110: _fetch_finnhub on an answer with this status and JSON body
FetchFinnhub(status, data, timestamp) ==
    IF status # 200 THEN [precio |-> None, exc |-> None]
    ELSE IF "error" \in DOMAIN data THEN [precio |-> None, exc |-> None]
    ELSE IF "c" \notin DOMAIN data THEN [precio |-> None, exc |-> None]
    ELSE IF ~IsNum(data.c)
    THEN \* data["c"] > 0 raises, caught at line 108
         [precio |-> None, exc |-> Some("TypeError")]
    ELSE IF data.c[2] > 0
    THEN LET pc == DictGet(data, "pc", Num(1))
         IN  IF ~IsNum(pc) THEN [precio |-> None, exc |-> Some("TypeError")]
             ELSE IF pc[2] = 0 THEN [precio |-> None, exc |-> Some("ZeroDivisionError")]
             ELSE [precio |-> Some([timestamp |-> timestamp, price |-> data.c[2]]),
                   exc |-> None]
    ELSE [precio |-> None, exc |-> None]

\* lines 112-149: _fetch_binance on an answer with this status and JSON body
FetchBinance(status, data, timestamp) ==
    IF status # 200 THEN [precio |-> None, exc |-> None]
    ELSE LET price == FloatOf(DictGet(data, "lastPrice", Num(0)))
         IN  IF price = None
             THEN \* float() raises, caught at line 147
                  [precio |-> None, exc |-> Some("ValueError")]
             ELSE [precio |-> Some([timestamp |-> timestamp, price |-> price[1]]),
                   exc |-> None]

\* lines 43-51
obtener_precio(type, status, data, timestamp) ==
    IF type = "stock" THEN FetchFinnhub(status, data, timestamp)
    ELSE IF type = "crypto" THEN FetchBinance(status, data, timestamp)
    ELSE [precio |-> None, exc |-> None]

\* the answers a source may give: <<status, body>>
FinnhubAnswers ==
    {<<200, JsonDict(c, pc, None)>> :
        c \in {None, Num(0), Num(BasePrice), Str("N/A")}, pc \in {None, Num(0)}}
      \cup {<<429, JsonDict(None, None, None)>>}
BinanceAnswers ==
    {<<200, JsonDict(None, None, lp)>> :
        lp \in {None, Str("1.00"), Str("0.00000000"), Str("N/A")}}
      \cup {<<500, JsonDict(None, None, None)>>}
Answers(type) == IF type = "stock" THEN FinnhubAnswers ELSE BinanceAnswers

\* d[key] = value on a dict that has the key
DictSetAll(d, key, value) == [k \in DOMAIN d |-> value]

DictSet(d, key, value) == [d EXCEPT ![key] = value]

\* KalmanFilter() before its first update: x = [0.0, 0.0], not initialized
NewFilter == [initialized |-> FALSE, x |-> <<0, 0>>, P |-> <<0, 0, 0, 0>>]

\* a thread that is not inside validate_predictions
NotValidating ==
    [pc |-> "idle", i |-> 0, historial_dict |-> <<>>, validated_count |-> 0,
     current_time |-> 0, actual_price |-> <<>>]

\* the polling threads start() may spawn
Threads == 1..MaxStarts
\* the threads of the gunicorn worker that run request handlers
HandlerThreads == 1..GunicornThreads
\* the keys of symbols_config, in the order of the dict (cli.py:723-738)
SymbolOrder == <<"GGAL", "BTC">>
Symbols == {SymbolOrder[i] : i \in 1..Len(SymbolOrder)}

(***************************************************************************)
(* PredictionTracker.add_prediction                                        *)
(***************************************************************************)
\* the keys of forecast_data that add_prediction reads
ReadFields ==
    {"current_price", "prediction", "horizon_minutes", "velocity",
     "uncertainty", "confidence", "lower_bound", "upper_bound"}

\* forecast_data[k] raises KeyError for a key the dict does not hold
AddRaises(forecast_data) == ~(ReadFields \subseteq DOMAIN forecast_data)

\* the dict built at lines 38-51; rid is the identity of the dict object
PredictionRecord(forecast_data, timestamp, rid) ==
    [rid             |-> rid,
     timestamp       |-> timestamp,
     current_price   |-> forecast_data.current_price,
     predicted_price |-> forecast_data.prediction,
     horizon_minutes |-> forecast_data.horizon_minutes,
     velocity        |-> forecast_data.velocity,
     uncertainty     |-> forecast_data.uncertainty,
     confidence      |-> forecast_data.confidence,
     lower_bound     |-> forecast_data.lower_bound,
     upper_bound     |-> forecast_data.upper_bound,
     validated       |-> FALSE,
     actual_price    |-> None,
     error           |-> None]

\* the predictions deque after add_prediction(forecast_data) returns normally
add_prediction(preds, forecast_data, timestamp, rid) ==
    DequeAppend(preds, PredictionRecord(forecast_data, timestamp, rid), MaxPredictions)

(***************************************************************************)
(* PredictionTracker.validate_predictions and _find_closest_price          *)
(***************************************************************************)
\* historial_dict[ts] = price: a new key goes last, a known key keeps its place
DictPut(d, ts, price) ==
    IF \E i \in 1..Len(d) : d[i].ts = ts
    THEN [i \in 1..Len(d) |-> IF d[i].ts = ts THEN [ts |-> ts, price |-> price] ELSE d[i]]
    ELSE Append(d, [ts |-> ts, price |-> price])

RECURSIVE HistorialDictFrom(_, _, _)
HistorialDictFrom(h, i, d) ==
    IF i > Len(h) THEN d
    ELSE HistorialDictFrom(h, i + 1, DictPut(d, h[i].timestamp, h[i].price))

\* lines 72-78: the history as a dict keyed by timestamp, in insertion order
HistorialDict(h) == HistorialDictFrom(h, 1, <<>>)

\* a tolerance of a minute instead of 30 seconds
FindClosestPriceWide(target_time, historial_dict) ==
    LET hits == {i \in 1..Len(historial_dict) :
                    Abs(historial_dict[i].ts - target_time) <= 2 * Tolerance}
    IN  IF hits = {} THEN None
        ELSE Some(historial_dict[CHOOSE i \in hits : \A j \in hits : i <= j].price)

\* the first price of the history, however far from the target
FindClosestPriceAny(target_time, historial_dict) ==
    IF historial_dict = <<>> THEN None ELSE Some(historial_dict[1].price)

\* lines 133-143: the price of the first key within the tolerance, else None
FindClosestPrice(target_time, historial_dict) ==
    LET hits == {i \in 1..Len(historial_dict) :
                    Abs(historial_dict[i].ts - target_time) <= Tolerance}
    IN  IF hits = {} THEN None
        ELSE Some(historial_dict[CHOOSE i \in hits : \A j \in hits : i <= j].price)

TargetTime(pred) == pred.timestamp + 60 * pred.horizon_minutes

\* lines 98-110: the record after a successful validation
ValidatedRecord(pred, actual_price, current_time) ==
    LET error == actual_price - pred.predicted_price
    IN  [k \in DOMAIN pred \cup {"error_pct", "within_interval", "validation_time"} |->
            CASE k = "validated"       -> TRUE
              [] k = "actual_price"    -> Some(actual_price)
              [] k = "error"           -> Some(error)
              [] k = "error_pct"       -> <<error * 100, pred.current_price>>
              [] k = "within_interval" -> (pred.lower_bound <= actual_price
                                            /\ actual_price <= pred.upper_bound)
              [] k = "validation_time" -> current_time
              [] OTHER                 -> pred[k]]

\* the loop body without the skip of validated records (line 82)
ValidateOneNoSkip(pred, historial_dict, current_time) ==
    IF current_time < TargetTime(pred) THEN pred
    ELSE LET actual == FindClosestPrice(TargetTime(pred), historial_dict)
         IN  IF actual = None THEN pred
             ELSE ValidatedRecord(pred, actual[1], current_time)

\* lines 82-114 for one record: the record as the loop body leaves it
ValidateOne(pred, historial_dict, current_time) ==
    IF pred.validated THEN pred
    ELSE IF current_time < TargetTime(pred) THEN pred
    ELSE LET actual == FindClosestPrice(TargetTime(pred), historial_dict)
         IN  IF actual = None THEN pred
             ELSE ValidatedRecord(pred, actual[1], current_time)

\* lines 81-118: the loop over self.predictions, from index i on; st holds
\* the two deques and validated_count
RECURSIVE ValidateLoop(_, _, _, _)
ValidateLoop(st, i, historial_dict, current_time) ==
    IF i > Len(st.predictions) THEN st
    ELSE LET pred == st.predictions[i]
             new  == ValidateOne(pred, historial_dict, current_time)
         IN  IF new = pred
             THEN ValidateLoop(st, i + 1, historial_dict, current_time)
             ELSE ValidateLoop(
                    [predictions |-> [st.predictions EXCEPT ![i] = new],
                     validated_predictions |->
                        DequeAppend(st.validated_predictions, new, MaxPredictions),
                     validated_count |-> st.validated_count + 1],
                    i + 1, historial_dict, current_time)

\* a validation that drops the due records it finds no sample for
validate_predictions_drop(preds, validated, current_historial, current_time) ==
    LET keep(p) == p.validated \/ current_time < TargetTime(p)
                   \/ FindClosestPrice(TargetTime(p), HistorialDict(current_historial)) # None
        st0 == [predictions |-> SelectSeq(preds, keep),
                validated_predictions |-> validated, validated_count |-> 0]
    IN  IF current_historial = <<>> THEN st0
        ELSE ValidateLoop(st0, 1, HistorialDict(current_historial), current_time)

\* lines 55-120
validate_predictions(preds, validated, current_historial, current_time) ==
    LET st0 == [predictions |-> preds, validated_predictions |-> validated,
                validated_count |-> 0]
    IN  IF current_historial = <<>> THEN st0
        ELSE ValidateLoop(st0, 1, HistorialDict(current_historial), current_time)

(***************************************************************************)
(* Forecast dictionaries handed to the tracker by a caller.                *)
(***************************************************************************)
\* an argument of add_prediction that holds exactly the keys lines 40-47 read
ForecastData(current_price, prediction, horizon_minutes) ==
    [current_price   |-> current_price,
     prediction      |-> prediction,
     horizon_minutes |-> horizon_minutes,
     velocity        |-> <<prediction - current_price, horizon_minutes>>,
     uncertainty     |-> 1,
     confidence      |-> "medium",
     lower_bound     |-> prediction - 1,
     upper_bound     |-> prediction + 1]

\* the Forecast of the estimator-backed forecaster ("Forecast dictionary from
\* Kalman Filter"): every key add_prediction reads is present
KalmanForecastDict(current_price, prediction, horizon_minutes, timestamp) ==
    [method          |-> "kalman_filter",
     prediction      |-> prediction,
     current_price   |-> current_price,
     price_change    |-> prediction - current_price,
     price_change_pct |-> <<(prediction - current_price) * 100, current_price>>,
     horizon_minutes |-> horizon_minutes,
     velocity        |-> <<prediction - current_price, horizon_minutes>>,
     uncertainty     |-> 1,
     trend           |-> IF prediction > current_price THEN "up"
                         ELSE IF prediction < current_price THEN "down" ELSE "flat",
     lower_bound     |-> prediction - 1,
     upper_bound     |-> prediction + 1,
     confidence      |-> "medium",
     timestamp       |-> timestamp]

(***************************************************************************)
(* Exact arithmetic on the quotients the forecasters compute.              *)
(***************************************************************************)
RECURSIVE Gcd(_, _)
Gcd(a, b) == IF b = 0 THEN Abs(a) ELSE Gcd(b, a % b)

\* the fraction n/d (d # 0) in lowest terms with a positive denominator
Frac(n, d) ==
    LET g == Gcd(Abs(n), Abs(d))
        s == IF d < 0 THEN -1 ELSE 1
    IN  [num |-> s * (n \div g), den |-> s * (d \div g)]

\* x * w1 + y * w2 for integers x, y and fractions w1, w2
Weighted(x, w1, y, w2) ==
    Frac(x * w1.num * w2.den + y * w2.num * w1.den, w1.den * w2.den)

\* round(q, 2) of a price in cents: the nearest integer, ties to even
RoundFrac(q) ==
    LET fl == (2 * q.num + q.den) \div (2 * q.den)
    IN  IF (2 * q.num + q.den) % (2 * q.den) = 0 /\ fl % 2 = 1 THEN fl - 1 ELSE fl

Trend(change) == IF change > 0 THEN "up" ELSE IF change < 0 THEN "down" ELSE "flat"

LastPrice(h) == h[Len(h)].price

(***************************************************************************)
(* GGALForecaster (forecaster.py): the median of five heuristic models.    *)
(***************************************************************************)
Models == {"simple_ma", "exponential_smoothing", "linear_regression",
           "momentum", "mean_reversion"}

\* the threshold off by one
ExtractPricesOffByOne(h, min_samples) ==
    IF Len(h) < min_samples - 1 THEN None ELSE Some([i \in 1..Len(h) |-> h[i].price])

\* lines 14-18: None below min_samples, else the prices
ExtractPrices(h, min_samples) ==
    IF Len(h) < min_samples THEN None ELSE Some([i \in 1..Len(h) |-> h[i].price])

\* lines 294-307: the dict ensemble_forecast returns; the numbers the five
\* models compute from the prices are inputs of the call
HeuristicForecastDict(h, horizon_minutes, ensemble_pred, methods_used, timestamp) ==
    [method               |-> "ensemble",
     prediction           |-> ensemble_pred,
     current_price        |-> LastPrice(h),
     horizon_minutes      |-> horizon_minutes,
     confidence           |-> "high",
     prediction_spread    |-> 0,
     models_used          |-> methods_used,
     num_models           |-> Cardinality(methods_used),
     min_prediction       |-> ensemble_pred,
     max_prediction       |-> ensemble_pred,
     technical_indicators |-> [sma |-> LastPrice(h)],
     timestamp            |-> timestamp]

\* lines 251-307: methods_used are the models that returned without raising
ensemble_forecast(h, min_samples, horizon_minutes, ensemble_pred, methods_used, timestamp) ==
    IF ExtractPrices(h, min_samples) = None THEN None
    ELSE IF methods_used = {} THEN None
    ELSE Some(HeuristicForecastDict(h, horizon_minutes, ensemble_pred, methods_used,
                                    timestamp))

\* lines 309-319: the dict of the horizons that produced a forecast;
\* used[hz] are the models that succeeded for horizon hz
get_all_forecasts(h, min_samples, horizons, ensemble_pred, used, timestamp) ==
    LET out == [hz \in horizons |->
                  ensemble_forecast(h, min_samples, hz, ensemble_pred, used[hz], timestamp)]
        ok  == {hz \in horizons : out[hz] # None}
    IN  [hz \in ok |-> out[hz][1]]

(***************************************************************************)
(* The estimator-backed forecaster (GGALForecaster.forecast of the Kalman  *)
(* version, called at cli.py:680 and ensemble_forecaster.py:48,52).        *)
(***************************************************************************)
\* None below min_samples or when the estimator fails, else a Forecast
KalmanForecast(h, min_samples, horizon_minutes, ok, prediction, timestamp) ==
    IF Len(h) < min_samples \/ ~ok THEN None
    ELSE Some(KalmanForecastDict(LastPrice(h), prediction, horizon_minutes, timestamp))

(***************************************************************************)
(* AutoMLForecaster (automl_forecaster.py)                                 *)
(***************************************************************************)
\* a forecaster that trains once and never again
ShouldRetrainWithoutModel(model, trained_size, n_samples) ==
    model = None

\* lines 29-32
ShouldRetrain(model, trained_size, n_samples) ==
    model = None \/ (n_samples - trained_size) >= RetrainEvery

\* line 108: uncertainty = (hi - lo) / 4, in dollars; prices are in cents
AutoMLConfidence(lower, upper) ==
    IF (upper - lower) < 200 THEN "high"
    ELSE IF (upper - lower) < 400 THEN "medium" ELSE "low"

\* lines 97-112
AutoMLForecastDict(current_price, predicted_price, lower, upper, model, timestamp) ==
    [prediction          |-> predicted_price,
     current_price       |-> current_price,
     price_change        |-> predicted_price - current_price,
     price_change_pct    |-> <<(predicted_price - current_price) * 100, current_price>>,
     horizon             |-> "5min",
     velocity            |-> <<predicted_price - current_price, HorizonMinutes>>,
     trend               |-> Trend(predicted_price - current_price),
     lower_bound         |-> lower,
     upper_bound         |-> upper,
     confidence_interval |-> "95%",
     confidence          |-> AutoMLConfidence(lower, upper),
     model_type          |-> "Auto-ARIMA",
     model_order         |-> model,
     timestamp           |-> timestamp]

\* lines 34-112: the result and the forecaster's fields after the call;
\* train_ok and predict_ok say whether auto_arima and model.predict return,
\* predicted_price and width are what model.predict returns
AutoMLForecast(h, min_samples, model, trained_size, train_ok, predict_ok, predicted_price, width, timestamp) ==
    IF Len(h) < min_samples
    THEN [result |-> None, model |-> model, last_train_size |-> trained_size]
    ELSE IF ShouldRetrain(model, trained_size, Len(h)) /\ ~train_ok
    THEN [result |-> None, model |-> model, last_train_size |-> trained_size]
    ELSE LET m  == IF ShouldRetrain(model, trained_size, Len(h)) THEN Some(Len(h)) ELSE model
             sz == IF ShouldRetrain(model, trained_size, Len(h)) THEN Len(h) ELSE trained_size
         IN  IF ~predict_ok
             THEN [result |-> None, model |-> m, last_train_size |-> sz]
             ELSE [result |-> Some(AutoMLForecastDict(LastPrice(h), predicted_price,
                                      predicted_price - width, predicted_price + width,
                                      m, timestamp)),
                   model |-> m, last_train_size |-> sz]

(***************************************************************************)
\* line 55: what auto_arima(prices) keeps of the series it was fitted on; the
\* ghost field behind counts the samples appended to the history since then
ArimaFit(h) == [price |-> LastPrice(h), behind |-> 0]

\* lines 72-76: model.predict(n_periods=1) is given no prices: its forecast is
\* for the step after the end of the series the model was fitted on (here the
\* last price of that series)
ArimaPredict(fitted) == fitted.price

(* EnsembleForecaster (ensemble_forecaster.py)                             *)
(***************************************************************************)
ConfidenceScore(c) == IF c = "high" THEN 3 ELSE IF c = "medium" THEN 2 ELSE 1

\* lines 84-94
ConsensusConfidence(kalman_pred, automl_pred, wk, wa) ==
    LET avg == Weighted(ConfidenceScore(kalman_pred.confidence), wk,
                        ConfidenceScore(automl_pred.confidence), wa)
    IN  IF 2 * avg.num >= 5 * avg.den THEN "high"
        ELSE IF 2 * avg.num >= 3 * avg.den THEN "medium" ELSE "low"

\* lines 63-121
WeightedForecastDict(kalman_pred, automl_pred, wk, wa, timestamp) ==
    LET ensemble_price == Weighted(kalman_pred.prediction, wk, automl_pred.prediction, wa)
        current_price  == kalman_pred.current_price
        change         == Frac(ensemble_price.num - current_price * ensemble_price.den,
                               ensemble_price.den)
    IN  [prediction          |-> RoundFrac(ensemble_price),
         current_price       |-> current_price,
         price_change        |-> RoundFrac(change),
         price_change_pct    |-> <<change.num * 100, change.den * current_price>>,
         horizon             |-> "5min",
         velocity            |-> <<change.num, change.den * HorizonMinutes>>,
         trend               |-> Trend(change.num),
         lower_bound         |-> RoundFrac(Weighted(kalman_pred.lower_bound, wk,
                                                    automl_pred.lower_bound, wa)),
         upper_bound         |-> RoundFrac(Weighted(kalman_pred.upper_bound, wk,
                                                    automl_pred.upper_bound, wa)),
         confidence_interval |-> "95%",
         confidence          |-> ConsensusConfidence(kalman_pred, automl_pred, wk, wa),
         model_type          |-> "Ensemble (Kalman + Auto-ARIMA)",
         components          |-> [kalman |-> [prediction |-> kalman_pred.prediction,
                                              weight |-> wk],
                                  automl |-> [prediction |-> automl_pred.prediction,
                                              weight |-> wa,
                                              order |-> automl_pred.model_order]],
         timestamp           |-> timestamp]

\* a combiner that needs both components
EnsembleForecastNeedsBoth(h, min_samples, kalman_pred, automl_pred, wk, wa, timestamp) ==
    IF Len(h) < min_samples
    THEN IF Len(h) >= KalmanMinSamples THEN kalman_pred ELSE None
    ELSE IF kalman_pred = None \/ automl_pred = None THEN None
    ELSE Some(WeightedForecastDict(kalman_pred[1], automl_pred[1], wk, wa, timestamp))

\* lines 45-121: kalman_pred and automl_pred are what self.kalman.forecast and
\* self.automl.forecast return when the code calls them
EnsembleForecast(h, min_samples, kalman_pred, automl_pred, wk, wa, timestamp) ==
    IF Len(h) < min_samples
    THEN IF Len(h) >= KalmanMinSamples THEN kalman_pred ELSE None
    ELSE IF kalman_pred = None /\ automl_pred # None THEN automl_pred
    ELSE IF kalman_pred # None /\ automl_pred = None THEN kalman_pred
    ELSE IF kalman_pred = None /\ automl_pred = None THEN None
    ELSE Some(WeightedForecastDict(kalman_pred[1], automl_pred[1], wk, wa, timestamp))

\* both weights computed from the first score
update_weights_same_score(wk, wa, kalman_effectiveness, automl_effectiveness) ==
    LET total == kalman_effectiveness + automl_effectiveness
    IN  IF total > 0
        THEN <<Frac(kalman_effectiveness, total), Frac(kalman_effectiveness, total)>>
        ELSE <<wk, wa>>

\* update_weights with each weight clamped into [0,1]
update_weights_clamped(wk, wa, kalman_effectiveness, automl_effectiveness) ==
    LET total == kalman_effectiveness + automl_effectiveness
        clamp(q) == IF q.num < 0 THEN Frac(0, 1)
                    ELSE IF q.num > q.den THEN Frac(1, 1) ELSE q
    IN  IF total > 0
        THEN <<clamp(Frac(kalman_effectiveness, total)),
               clamp(Frac(automl_effectiveness, total))>>
        ELSE <<wk, wa>>

\* lines 197-208: the weight pair after update_weights
update_weights(wk, wa, kalman_effectiveness, automl_effectiveness) ==
    LET total == kalman_effectiveness + automl_effectiveness
    IN  IF total > 0
        THEN <<Frac(kalman_effectiveness, total), Frac(automl_effectiveness, total)>>
        ELSE <<wk, wa>>

\* lines 31-32: 0.4 and 0.6
DefaultKalmanWeight == Frac(2, 5)
DefaultAutomlWeight == Frac(3, 5)

\* EnsembleForecaster.forecast with its two component calls: the result, what
\* the components returned and the AutoML forecaster's fields afterwards
EnsembleForecasterForecast(h, min_samples, model, trained_size, kalman_ok, kalman_price, train_ok, predict_ok, automl_price, width, wk, wa, timestamp) ==
    LET kp == KalmanForecast(h, KalmanMinSamples, HorizonMinutes, kalman_ok,
                             kalman_price, timestamp)
        am == AutoMLForecast(h, min_samples, model, trained_size, train_ok, predict_ok,
                             automl_price, width, timestamp)
    IN  [result          |-> EnsembleForecast(h, min_samples, kp, am.result, wk, wa,
                                              timestamp),
         kalman_pred     |-> kp,
         automl_pred     |-> am.result,
         model           |-> am.model,
         last_train_size |-> am.last_train_size]

(***************************************************************************)
(* The linear state estimator (class KalmanFilter, which test_app.py:21-73 *)
(* exercises).  The state is [initialized, x, P]: x = <<price, velocity>>  *)
(* in hundredths of a cent (per step), P = <<p11, p12, p21, p22>>.  The    *)
(* floating-point quotients are integer quotients rounded down.            *)
(***************************************************************************)
\* one step of the transition model: x <- F x, P <- F P F' + Q with
\* F = [[1, 1], [0, 1]] and Q = diag(1, 1)
KfProject(st) ==
    LET x == st.x
        P == st.P
    IN  [st EXCEPT !.x = <<x[1] + x[2], x[2]>>,
                   !.P = <<P[1] + P[2] + P[3] + P[4] + 1, P[2] + P[4],
                           P[3] + P[4], P[4] + 1>>]

\* update(measurement), the measurement in cents: the first call initializes
\* with covariance diag(1000, 1000); later calls project one step and correct
\* with the gain P H' / (p11 + R), R = 10
KalmanUpdate(st, measurement) ==
    IF ~st.initialized
    THEN [initialized |-> TRUE, x |-> <<100 * measurement, 0>>,
          P |-> <<1000, 0, 0, 1000>>]
    ELSE LET pr == KfProject(st)
             P  == pr.P
             y  == 100 * measurement - pr.x[1]
             S  == P[1] + 10
         IN  [initialized |-> TRUE,
              x |-> <<pr.x[1] + (P[1] * y) \div S, pr.x[2] + (P[3] * y) \div S>>,
              P |-> <<P[1] - (P[1] * P[1]) \div S, P[2] - (P[1] * P[2]) \div S,
                      P[3] - (P[3] * P[1]) \div S, P[4] - (P[3] * P[2]) \div S>>]

\* the state projected steps times
RECURSIVE KfProjectTimes(_, _)
KfProjectTimes(st, steps) ==
    IF steps = 0 THEN st ELSE KfProjectTimes(KfProject(st), steps - 1)

\* a predict that stores the projected state in the filter
KalmanPredictInPlace(st, steps) ==
    IF ~st.initialized THEN [result |-> <<None, None>>, state |-> st]
    ELSE LET pr == KfProjectTimes(st, steps)
         IN  [result |-> <<Some(pr.x[1]),
                           Some(CHOOSE r \in 0..1000 :
                                    r * r <= pr.P[1] /\ pr.P[1] < (r + 1) * (r + 1))>>,
              state  |-> pr]

\* predict(steps): the pair (price, std) it returns, (None, None) before the
\* first update, and the filter's state afterwards
KalmanPredict(st, steps) ==
    IF ~st.initialized THEN [result |-> <<None, None>>, state |-> st]
    ELSE LET pr == KfProjectTimes(st, steps)
         IN  [result |-> <<Some(pr.x[1]),
                           Some(CHOOSE r \in 0..1000 :
                                    r * r <= pr.P[1] /\ pr.P[1] < (r + 1) * (r + 1))>>,
              state  |-> st]

(***************************************************************************)
(* generate_trading_signal of the three forecasters.  A signal is None or  *)
(* <<dict>>.  A percentage is a whole number of hundredths of a percent    *)
(* where the code rounds it to two decimals.                               *)
(***************************************************************************)
\* automl_forecaster.py:144-187 and ensemble_forecaster.py:156-195, which
\* differ in model_type only
StrengthSignal(forecast, model_type) ==
    LET pct   == forecast.price_change_pct
        \* forecast['price_change_pct'], rounded at automl_forecaster.py:101
        \* and ensemble_forecaster.py:100
        price_change_pct == RoundFrac(Frac(100 * pct[1], pct[2]))
        confidence == forecast.confidence
        width == forecast.upper_bound - forecast.lower_bound
        \* the three components in fortieths of a point: |pct| * 10 capped at
        \* 50, the confidence score, and 20 - uncertainty * 10 with
        \* uncertainty = width / 4 in dollars
        price_magnitude   == IF 4 * Abs(price_change_pct) < 2000
                             THEN 4 * Abs(price_change_pct) ELSE 2000
        confidence_score  == IF confidence = "high" THEN 1200
                             ELSE IF confidence = "medium" THEN 800 ELSE 400
        uncertainty_score == IF 800 - width > 0 THEN 800 - width ELSE 0
    IN  [signal          |-> IF price_change_pct > 30 /\ confidence \in {"high", "medium"}
                             THEN "BUY"
                             ELSE IF price_change_pct < -30
                                     /\ confidence \in {"high", "medium"}
                             THEN "SELL" ELSE "HOLD",
         signal_strength |-> (price_magnitude + confidence_score + uncertainty_score)
                                \div 40,
         confidence      |-> confidence,
         price_change_forecast |-> price_change_pct,
         current_price   |-> forecast.current_price,
         predicted_price |-> forecast.prediction,
         model_type      |-> model_type]

\* AutoMLForecaster.generate_trading_signal, lines 137-187; forecast is what
\* self.forecast(historial) returns
AutoMLTradingSignal(h, min_samples, forecast) ==
    IF Len(h) < min_samples \/ forecast = None THEN None
    ELSE Some(StrengthSignal(forecast[1], "Auto-ARIMA"))

\* GGALForecaster.generate_trading_signal, forecaster.py:326-380; forecast is
\* what self.ensemble_forecast(historial, 5) returns, and the indicators it
\* carries are computed here from the same prices (lines 24-74)
HeuristicTradingSignal(h, min_samples, forecast) ==
    LET prices == ExtractPrices(h, min_samples)
    IN  IF prices = None \/ Len(h) < 15
        THEN Some([signal |-> "HOLD", reason |-> <<"Insufficient data">>,
                   confidence |-> "low"])
        ELSE IF forecast = None
        THEN Some([signal |-> "HOLD", reason |-> <<"Forecast unavailable">>,
                   confidence |-> "low"])
        ELSE
        LET pr == prices[1]
            n  == Len(pr)
            current_price   == forecast[1].current_price
            predicted_price == forecast[1].prediction
            change == predicted_price - current_price
            \* sums of the rises and of the falls over the last 14 deltas
            RECURSIVE Gain(_)
            Gain(i) == IF i <= 1 \/ i <= n - 14 THEN 0
                       ELSE Gain(i - 1) + (IF pr[i] > pr[i - 1] THEN pr[i] - pr[i - 1] ELSE 0)
            RECURSIVE Loss(_)
            Loss(i) == IF i <= 1 \/ i <= n - 14 THEN 0
                       ELSE Loss(i - 1) + (IF pr[i] < pr[i - 1] THEN pr[i - 1] - pr[i] ELSE 0)
            \* rsi = 100 when avg_loss = 0, else 100 - 100 / (1 + gain / loss)
            rsi == IF Loss(n) = 0 THEN Frac(100, 1)
                   ELSE Frac(100 * Gain(n), Gain(n) + Loss(n))
            momentum == pr[n] - pr[n - 4]
            \* lines 347-352: price_change_pct > 0.5 and < -0.5
            s1 == IF 200 * change > current_price THEN "BUY"
                  ELSE IF 200 * change < -current_price THEN "SELL" ELSE "HOLD"
            \* lines 355-361
            s2 == IF rsi.num < 30 * rsi.den THEN (IF s1 # "SELL" THEN "BUY" ELSE s1)
                  ELSE IF rsi.num > 70 * rsi.den THEN (IF s1 # "BUY" THEN "SELL" ELSE s1)
                  ELSE s1
            \* lines 364-370
            s3 == IF s2 = "BUY" /\ momentum < 0 THEN "HOLD"
                  ELSE IF s2 = "SELL" /\ momentum > 0 THEN "HOLD" ELSE s2
            reason ==
                (IF s1 = "BUY" THEN <<"Predicted rise">>
                 ELSE IF s1 = "SELL" THEN <<"Predicted drop">> ELSE <<>>)
                \o (IF rsi.num < 30 * rsi.den THEN <<"RSI oversold">>
                    ELSE IF rsi.num > 70 * rsi.den THEN <<"RSI overbought">> ELSE <<>>)
                \o (IF s2 = "BUY" /\ momentum < 0 THEN <<"Negative momentum - holding">>
                    ELSE IF s2 = "SELL" /\ momentum > 0
                    THEN <<"Positive momentum - holding">> ELSE <<>>)
        IN  Some([signal     |-> s3,
                  confidence |-> forecast[1].confidence,
                  reason     |-> IF reason = <<>> THEN <<"No clear signal">> ELSE reason,
                  price_change_forecast |-> RoundFrac(Frac(10000 * change, current_price)),
                  current_price   |-> current_price,
                  predicted_price |-> predicted_price])

\* EnsembleForecaster.generate_trading_signal, lines 146-195; forecast is what
\* self.forecast(historial) returns and kalman_signal what
\* self.kalman.generate_trading_signal(historial) returns
EnsembleTradingSignal(h, min_samples, forecast, kalman_signal) ==
    IF Len(h) < min_samples
    THEN IF Len(h) >= 15 THEN kalman_signal ELSE None
    ELSE IF forecast = None THEN None
    ELSE Some(StrengthSignal(forecast[1], "Ensemble"))

(***************************************************************************)
(* PredictionTracker.get_accuracy_metrics and clear_old_predictions.       *)
(* Money is in cents, so round(x, 3) of an amount in dollars is a whole    *)
(* number of tenths of a cent; a percentage rounded to one decimal is a    *)
(* whole number of tenths of a percent, and to two decimals of hundredths. *)
(***************************************************************************)
\* lines 181-182: 'up' if price > current_price else 'down'
Direction(price, current_price) == IF price > current_price THEN "up" ELSE "down"

\* _generate_summary(dir_acc, mape, coverage), lines 209-218; dir_acc and
\* mape are the unrounded quotients, in percent
GenerateSummary(dir_acc, mape) ==
    IF dir_acc.num >= 70 * dir_acc.den /\ mape.num < mape.den
    THEN "Excellent: High accuracy, low error"
    ELSE IF dir_acc.num >= 60 * dir_acc.den /\ 2 * mape.num < 3 * mape.den
    THEN "Good: Reliable predictions"
    ELSE IF dir_acc.num >= 50 * dir_acc.den /\ 2 * mape.num < 5 * mape.den
    THEN "Fair: Moderate accuracy"
    ELSE "Poor: Needs parameter tuning"

\* the dict get_accuracy_metrics returns, lines 152-207
get_accuracy_metrics(preds, validated) ==
    LET hasError(p) == p.error # None
        hasPct(p)   == "error_pct" \in DOMAIN p
        hasWithin(p) == "within_interval" \in DOMAIN p
        withError == SelectSeq(validated, hasError)
        withPct   == SelectSeq(validated, hasPct)
        within    == SelectSeq(validated, hasWithin)
        n == Len(withError)
        abs_sum == LET RECURSIVE S(_)
                       S(i) == IF i = 0 THEN 0 ELSE S(i - 1) + Abs(withError[i].error[1])
                   IN  S(n)
        sq_sum  == LET RECURSIVE S(_)
                       S(i) == IF i = 0 THEN 0
                               ELSE S(i - 1) + withError[i].error[1] * withError[i].error[1]
                   IN  S(n)
        \* the mean of |error_pct| over withPct[from..Len(withPct)], in percent
        MeanPct(from) ==
            LET RECURSIVE S(_)
                S(i) == IF i < from THEN Frac(0, 1)
                        ELSE LET q == S(i - 1)
                                 e == withPct[i].error_pct
                             IN  Frac(q.num * Abs(e[2]) + Abs(e[1]) * q.den,
                                      q.den * Abs(e[2]))
                total == S(Len(withPct))
            IN  Frac(total.num, total.den * (Len(withPct) - from + 1))
        mape == MeanPct(1)
        recent_mape == MeanPct(IF Len(withPct) >= 10 THEN Len(withPct) - 9 ELSE 1)
        \* round(sqrt(sq_sum / n), 3) in tenths of a cent
        rmse == CHOOSE r \in 0..(10 * sq_sum + 1) :
                    /\ (2 * r - 1) * (2 * r - 1) * n <= 400 * sq_sum \/ r = 0
                    /\ 400 * sq_sum < (2 * r + 1) * (2 * r + 1) * n
        correct_direction ==
            Cardinality({i \in 1..n :
                Direction(withError[i].predicted_price, withError[i].current_price)
                  = Direction(withError[i].actual_price[1], withError[i].current_price)})
        directional_accuracy == Frac(100 * correct_direction, n)
        covered == Cardinality({i \in 1..Len(within) : within[i].within_interval})
        interval_coverage == IF within = <<>> THEN Frac(0, 1)
                             ELSE Frac(100 * covered, Len(within))
    IN  IF validated = <<>>
        THEN [total_predictions |-> 0, validated_predictions |-> 0, metrics |-> None]
        ELSE IF n = 0
        THEN [total_predictions |-> Len(preds), validated_predictions |-> 0,
              metrics |-> None]
        ELSE [total_predictions     |-> Len(preds),
              validated_predictions |-> Len(validated),
              metrics |-> Some(
                [mae                  |-> RoundFrac(Frac(10 * abs_sum, n)),
                 rmse                 |-> rmse,
                 mape                 |-> RoundFrac(Frac(100 * mape.num, mape.den)),
                 directional_accuracy |-> RoundFrac(Frac(10 * directional_accuracy.num,
                                                         directional_accuracy.den)),
                 interval_coverage    |-> RoundFrac(Frac(10 * interval_coverage.num,
                                                         interval_coverage.den)),
                 recent_mape          |-> RoundFrac(Frac(100 * recent_mape.num,
                                                         recent_mape.den))]),
              summary |-> GenerateSummary(directional_accuracy, mape)]

\* a clean-up that empties both deques
clear_old_predictions_all(preds, validated, current_time, hours) ==
    [predictions |-> <<>>, validated_predictions |-> <<>>]

\* the two deques after clear_old_predictions(hours), lines 240-254
clear_old_predictions(preds, validated, current_time, hours) ==
    LET cutoff_time == current_time - 3600 * hours
        recent(p)   == p.timestamp > cutoff_time
    IN  [predictions |-> SelectSeq(preds, recent),
         validated_predictions |-> SelectSeq(validated, recent)]

(***************************************************************************)
(* Initial states.                                                         *)
(***************************************************************************)
\* a history of n samples polled every 10 seconds, an hour before time 0
Prefill(n) == [i \in 1..n |-> [timestamp |-> PollInterval * (i - n) - 3600, price |-> BasePrice]]

InitWith(h0, prog, automl) ==
    /\ now = 0
    /\ historial = h0
    /\ polls = 0
    /\ predictions = <<>>
    /\ validated_predictions = <<>>
    /\ adds = 0
    /\ kalman_weight = DefaultKalmanWeight
    /\ automl_weight = DefaultAutomlWeight
    /\ automl_model = None
    /\ last_train_size = 0
    /\ program = prog
    /\ use_automl = automl
    /\ last_forecasts = None
    /\ forecasting_running = TRUE
    /\ cycle_iter = 0
    /\ last = [op |-> "init"]

\* a record add_prediction stored more than 24 hours ago that found no sample
\* near its target time
OldPending == PredictionRecord(ForecastData(BasePrice, BasePrice + 1, 1), -86400 - 60, 0)

\* a monitor of this source whose start() was not called yet
InitMonitorOf(type) ==
    /\ running = FALSE
    /\ api_type = type
    /\ starts = 0
    /\ stopped = FALSE
    /\ mon_pc = [t \in Threads |-> "none"]
    /\ mon_precio = [t \in Threads |-> None]
    /\ mon_iter = 0

\* monitors[key].historial, trackers[key] and last_forecasts[key] of a key
\* right after MultiSymbolCLI.__init__
NewSymbol ==
    [historial |-> <<>>, predictions |-> <<>>, validated_predictions |-> <<>>,
     adds |-> 0, last_forecast |-> None]

\* the same after the monitor took ten samples and went silent, and the loop
\* recorded a forecast 270 s ago
UsedSymbol ==
    LET h == Prefill(KalmanMinSamples)
        f == KalmanForecastDict(LastPrice(h), LastPrice(h) + 1, HorizonMinutes, -270)
    IN  [historial |-> h, predictions |-> <<PredictionRecord(f, -270, 0)>>,
         validated_predictions |-> <<>>, adds |-> 0, last_forecast |-> Some(f)]

\* a key of a CLI started with AutoML: UsedSymbol with a history one sample
\* short of the ensemble's threshold, and the fields of the key's
\* EnsembleForecaster.automl
EnsembleSymbol ==
    [UsedSymbol EXCEPT !.historial = Prefill(EnsembleMinSamples - 1)]
        @@ [automl_model |-> None, last_train_size |-> 0]

\* request threads that are idle, and a CLI whose symbols are all in state s0
InitRest(s0) ==
    /\ handler_pc = [t \in HandlerThreads |-> "idle"]
    /\ handler_forecasts = [t \in HandlerThreads |-> None]
    /\ sym = [k \in Symbols |-> s0]
    /\ current_symbol = SymbolOrder[1]
    /\ loop_pos = 1
    /\ kf = NewFilter
    /\ automl_trained = [price |-> 0, behind |-> 0]
    /\ val = [t \in HandlerThreads |-> NotValidating]

\* the state the single-symbol, one-step-per-call actions leave alone
InitExt == InitMonitorOf("stock") /\ InitRest(NewSymbol)

\* a tracker used through the library that is new or holds OldPending
InitTracker ==
    /\ now = 0
    /\ historial = <<>>
    /\ polls = 0
    /\ predictions \in {<<>>, <<OldPending>>}
    /\ validated_predictions = <<>>
    /\ adds = 0
    /\ kalman_weight = DefaultKalmanWeight
    /\ automl_weight = DefaultAutomlWeight
    /\ automl_model = None
    /\ last_train_size = 0
    /\ program = "lib"
    /\ use_automl = FALSE
    /\ last_forecasts = None
    /\ forecasting_running = TRUE
    /\ cycle_iter = 0
    /\ last = [op |-> "init"]
    /\ InitExt

\* a fresh monitor and a fresh tracker
Init == InitWith(<<>>, "lib", FALSE) /\ InitExt

\* a monitor that has polled for a while, one sample short of a threshold
InitPipeline ==
    /\ \/ InitWith(Prefill(KalmanMinSamples - 1), "app", FALSE)
       \/ InitWith(Prefill(KalmanMinSamples - 1), "cli", FALSE)
       \/ InitWith(Prefill(EnsembleMinSamples - 1), "cli", TRUE)
    /\ InitExt

InitForecasters ==
    /\ \E n \in {KalmanMinSamples - 1, EnsembleMinSamples - 1} :
          InitWith(Prefill(n), "lib", TRUE)
    /\ InitExt

(***************************************************************************)
(* Actions.                                                                *)
(***************************************************************************)
\* the clock advances
Tick ==
    /\ UNCHANGED <<extVars, cycle_iter>>
    /\ now + 30 \in Instants
    /\ now' = now + 30
    /\ last' = [op |-> "tick"]
    /\ UNCHANGED <<monitorVars, trackerVars, ensembleVars, automlVars, cliVars>>

\* one iteration of PriceMonitor.monitorear_background that fetched a sample
Poll ==
    /\ UNCHANGED <<extVars, cycle_iter>>
    /\ polls < MaxPolls
    /\ \E price \in PriceSet :
          historial' = DequeAppend(historial, [timestamp |-> now, price |-> price],
                                   HistMaxLen)
    /\ polls' = polls + 1
    /\ last' = [op |-> "poll"]
    /\ UNCHANGED <<now, trackerVars, ensembleVars, automlVars, cliVars>>

\* tracker.add_prediction(forecast_data) by any caller, with a forecast that
\* holds the keys the method reads
AddPrediction ==
    /\ UNCHANGED <<extVars, cycle_iter>>
    /\ program # "cli"
    /\ adds < AddLimit
    /\ \E d \in {-1, 1}, hm \in HorizonSet :
          LET f == ForecastData(BasePrice, BasePrice + d, hm)
          IN  /\ predictions' = add_prediction(predictions, f, now, adds + 1)
              /\ last' = [op |-> "add_prediction", forecast |-> f, exc |-> None]
    /\ adds' = adds + 1
    /\ UNCHANGED <<now, monitorVars, validated_predictions, ensembleVars, automlVars,
                   cliVars>>

\* tracker.validate_predictions(monitor.historial) by any caller
ValidatePredictions ==
    LET st == validate_predictions(predictions, validated_predictions, historial, now)
    IN  /\ predictions' = st.predictions
        /\ validated_predictions' = st.validated_predictions
        /\ last' = [op |-> "validate_predictions", count |-> st.validated_count]
        /\ UNCHANGED <<extVars, cycle_iter>>
        /\ UNCHANGED <<now, monitorVars, adds, ensembleVars, automlVars, cliVars>>

\* GET /api/forecast (app.py:180-197)
ApiForecast ==
    /\ UNCHANGED <<extVars, cycle_iter>>
    /\ program = "app"
    /\ \E methods_used \in {{}, Models} :
      LET used      == [hz \in Horizons |-> methods_used]
          forecasts == get_all_forecasts(historial, KalmanMinSamples, Horizons,
                                         LastPrice(historial) + 1, used, now)
          has5      == 5 \in DOMAIN forecasts
          produced  == IF has5 THEN Some(forecasts[5]) ELSE None
      IN  IF Len(historial) < KalmanMinSamples
          THEN /\ methods_used = {}
               /\ last' = [op |-> "api_forecast", status |-> 202, exc |-> None,
                           produced |-> None]
               /\ UNCHANGED <<now, monitorVars, trackerVars, ensembleVars, automlVars,
                              cliVars>>
          ELSE IF has5 /\ AddRaises(forecasts[5])
          THEN \* KeyError leaves add_prediction and the handler
               /\ last' = [op |-> "api_forecast", status |-> 500,
                           exc |-> Some("KeyError"), produced |-> produced]
               /\ UNCHANGED <<now, monitorVars, trackerVars, ensembleVars, automlVars,
                              cliVars>>
          ELSE LET added == IF has5
                            THEN add_prediction(predictions, forecasts[5], now, adds + 1)
                            ELSE predictions
                   st    == validate_predictions(added, validated_predictions,
                                                 historial, now)
               IN  /\ has5 => adds < AddLimit
                   /\ predictions' = st.predictions
                   /\ validated_predictions' = st.validated_predictions
                   /\ adds' = IF has5 THEN adds + 1 ELSE adds
                   /\ last' = [op |-> "api_forecast", status |-> 200, exc |-> None,
                               produced |-> produced]
                   /\ UNCHANGED <<now, monitorVars, ensembleVars, automlVars, cliVars>>

\* tracker.clear_old_predictions(hours) by any caller
ClearOldPredictions ==
    /\ UNCHANGED <<extVars, cycle_iter>>
    /\ \E hours \in {0, 24} :
         LET st == clear_old_predictions(predictions, validated_predictions, now, hours)
         IN  /\ predictions' = st.predictions
             /\ validated_predictions' = st.validated_predictions
             /\ last' = [op |-> "clear_old_predictions", hours |-> hours,
                         removed |-> Len(predictions) - Len(st.predictions)]
    /\ UNCHANGED <<now, monitorVars, adds, ensembleVars, automlVars, cliVars>>

\* tracker.get_accuracy_metrics() by any caller
GetAccuracyMetrics ==
    /\ UNCHANGED <<extVars, cycle_iter>>
    /\ last' = [op |-> "get_accuracy_metrics",
                result |-> get_accuracy_metrics(predictions, validated_predictions)]
    /\ UNCHANGED <<now, monitorVars, trackerVars, ensembleVars, automlVars, cliVars>>

\* GET /api/forecast as a request thread of the gthread worker runs it, in the
\* three steps between which the other request thread may run: the forecaster
\* call (app.py:184-190), add_prediction (app.py:192-193), and
\* validate_predictions with the response (app.py:195-197)
HandlerBegin(t) ==
    /\ UNCHANGED <<threadVars, symbolVars, lateVars, cycle_iter>>
    /\ program = "app"
    /\ handler_pc[t] = "idle"
    /\ UNCHANGED <<now, monitorVars, trackerVars, ensembleVars, automlVars, cliVars>>
    /\ IF Len(historial) < KalmanMinSamples
       THEN /\ last' = [op |-> "handler_begin", thread |-> t, status |-> 202]
            /\ UNCHANGED handlerVars
       ELSE \E methods_used \in {{}, Models} :
              LET used      == [hz \in Horizons |-> methods_used]
                  forecasts == get_all_forecasts(historial, KalmanMinSamples, Horizons,
                                                 LastPrice(historial) + 1, used, now)
              IN  /\ handler_forecasts' = [handler_forecasts EXCEPT ![t] = Some(forecasts)]
                  /\ handler_pc' = [handler_pc EXCEPT ![t] = "add"]
                  /\ last' = [op |-> "handler_begin", thread |-> t, status |-> 0]

HandlerAdd(t) ==
    /\ UNCHANGED <<threadVars, symbolVars, lateVars, cycle_iter>>
    /\ handler_pc[t] = "add"
    /\ UNCHANGED <<now, monitorVars, validated_predictions, ensembleVars, automlVars,
                   cliVars, handler_forecasts>>
    /\ LET forecasts == handler_forecasts[t][1]
           has5      == 5 \in DOMAIN forecasts
       IN  IF has5 /\ AddRaises(forecasts[5])
           THEN \* KeyError leaves add_prediction and the handler
                /\ handler_pc' = [handler_pc EXCEPT ![t] = "idle"]
                /\ last' = [op |-> "handler_add", thread |-> t, status |-> 500]
                /\ UNCHANGED <<predictions, adds>>
           ELSE /\ has5 => adds < AddLimit
                /\ predictions' = IF has5
                                  THEN add_prediction(predictions, forecasts[5], now,
                                                      adds + 1)
                                  ELSE predictions
                /\ adds' = IF has5 THEN adds + 1 ELSE adds
                /\ handler_pc' = [handler_pc EXCEPT ![t] = "validate"]
                /\ last' = [op |-> "handler_add", thread |-> t, status |-> 0]

HandlerValidate(t) ==
    /\ UNCHANGED <<threadVars, symbolVars, lateVars, cycle_iter>>
    /\ handler_pc[t] = "validate"
    /\ LET st == validate_predictions(predictions, validated_predictions,
                                       historial, now)
       IN  /\ predictions' = st.predictions
           /\ validated_predictions' = st.validated_predictions
    /\ handler_pc' = [handler_pc EXCEPT ![t] = "idle"]
    /\ last' = [op |-> "handler_validate", thread |-> t, status |-> 200]
    /\ UNCHANGED <<now, monitorVars, adds, ensembleVars, automlVars, cliVars,
                   handler_forecasts>>

\* GET /api/prediction-metrics (app.py:208-224)
ApiPredictionMetrics ==
    /\ UNCHANGED <<extVars, cycle_iter>>
    /\ program = "app"
    /\ LET st == validate_predictions(predictions, validated_predictions,
                                       historial, now)
       IN  /\ predictions' = st.predictions
           /\ validated_predictions' = st.validated_predictions
           /\ last' = [op |-> "api_prediction_metrics", status |-> 200,
                       exc |-> None]
           /\ UNCHANGED <<now, monitorVars, adds, ensembleVars, automlVars, cliVars>>

\* one iteration of MultiSymbolCLI.continuous_forecasting_loop (cli.py:665-714)
CliCycle ==
    /\ UNCHANGED extVars
    /\ cycle_iter' = 1 - cycle_iter
    /\ program = "cli"
    /\ forecasting_running
    /\ \E kalman_ok, train_ok, predict_ok \in BOOLEAN, d \in {1}, width \in {2} :
         LET call == IF use_automl
                     THEN EnsembleForecasterForecast(historial, EnsembleMinSamples,
                              automl_model, last_train_size, kalman_ok,
                              LastPrice(historial) + d, train_ok, predict_ok,
                              LastPrice(historial) + 1, width,
                              kalman_weight, automl_weight, now)
                     ELSE [result |-> KalmanForecast(historial, KalmanMinSamples,
                                          HorizonMinutes, kalman_ok,
                                          LastPrice(historial) + d, now),
                           model |-> automl_model, last_train_size |-> last_train_size]
             forecast == call.result
         IN  IF Len(historial) < KalmanMinSamples
             THEN \* not enough data yet: continue
                  /\ kalman_ok /\ train_ok /\ predict_ok /\ d = 1 /\ width = 2
                  /\ last' = [op |-> "cli_cycle", produced |-> None, exc |-> None]
                  /\ UNCHANGED <<now, monitorVars, trackerVars, ensembleVars,
                                 automlVars, cliVars>>
             ELSE /\ automl_model' = call.model
                  /\ last_train_size' = call.last_train_size
                  /\ IF forecast = None
                     THEN /\ last' = [op |-> "cli_cycle", produced |-> None,
                                      exc |-> None]
                          /\ UNCHANGED <<trackerVars, cliVars>>
                     ELSE IF AddRaises(forecast[1])
                     THEN \* KeyError is caught at line 711
                          /\ last_forecasts' = forecast
                          /\ last' = [op |-> "cli_cycle", produced |-> forecast,
                                      exc |-> Some("KeyError")]
                          /\ UNCHANGED <<trackerVars, program, use_automl, forecasting_running>>
                     ELSE LET added == add_prediction(predictions, forecast[1], now,
                                                      adds + 1)
                              st == validate_predictions(added, validated_predictions,
                                                         historial, now)
                          IN  /\ adds < AddLimit
                              /\ last_forecasts' = forecast
                              /\ predictions' = st.predictions
                              /\ validated_predictions' = st.validated_predictions
                              /\ adds' = adds + 1
                              /\ last' = [op |-> "cli_cycle", produced |-> forecast,
                                          exc |-> None]
                              /\ UNCHANGED <<program, use_automl, forecasting_running>>
                  /\ UNCHANGED <<now, monitorVars, ensembleVars>>

\* one iteration of monitors[k]'s polling loop that fetched a sample
SymPoll(k) ==
    /\ UNCHANGED <<threadVars, handlerVars, lateVars, cycle_iter>>
    /\ polls < MaxPolls
    /\ \E price \in PriceSet :
         sym' = DictSet(sym, k,
                  [sym[k] EXCEPT !.historial =
                      DequeAppend(@, [timestamp |-> now, price |-> price], HistMaxLen)])
    /\ polls' = polls + 1
    /\ last' = [op |-> "sym_poll", key |-> k]
    /\ UNCHANGED <<now, historial, trackerVars, ensembleVars, automlVars, cliVars,
                   current_symbol, loop_pos>>

\* the body of `for key, monitor in self.monitors.items()` for the key the
\* loop is at (cli.py:668-706); an exception ends the pass (line 711)
LoopBody ==
    /\ UNCHANGED <<threadVars, handlerVars, lateVars, cycle_iter>>
    /\ program = "cli"
    /\ forecasting_running
    /\ UNCHANGED <<now, monitorVars, trackerVars, ensembleVars, automlVars, cliVars,
                   current_symbol>>
    /\ \E kalman_ok \in BOOLEAN :
         LET key      == SymbolOrder[loop_pos]
             s        == sym[key]
             forecast == KalmanForecast(s.historial, KalmanMinSamples, HorizonMinutes,
                                        kalman_ok, LastPrice(s.historial) + 1, now)
             next_pos == IF loop_pos = Len(SymbolOrder) THEN 1 ELSE loop_pos + 1
         IN  /\ last' = [op |-> "loop_body", key |-> key]
             /\ IF Len(s.historial) < KalmanMinSamples
                THEN kalman_ok /\ loop_pos' = next_pos /\ UNCHANGED sym
                ELSE IF forecast = None
                THEN loop_pos' = next_pos /\ UNCHANGED sym
                ELSE IF AddRaises(forecast[1])
                THEN /\ sym' = DictSet(sym, key, [s EXCEPT !.last_forecast = forecast])
                     /\ loop_pos' = 1
                ELSE LET added == add_prediction(s.predictions, forecast[1], now,
                                                 s.adds + 1)
                         st    == validate_predictions(added, s.validated_predictions,
                                                       s.historial, now)
                     IN  /\ s.adds < MaxDriverAdds
                         /\ sym' = DictSet(sym, key,
                                     [s EXCEPT !.last_forecast = forecast,
                                               !.predictions = st.predictions,
                                               !.validated_predictions =
                                                    st.validated_predictions,
                                               !.adds = @ + 1])
                         /\ loop_pos' = next_pos

\* the same body when the CLI was started with AutoML: forecasters[key] is an
\* EnsembleForecaster (cli.py:47-50, 65); the try of line 666 encloses the
\* whole for loop, so an exception ends the pass and the next pass starts
\* from the first key
LoopBodyEnsemble ==
    /\ UNCHANGED <<threadVars, handlerVars, lateVars, cycle_iter>>
    /\ program = "cli"
    /\ use_automl
    /\ forecasting_running
    /\ UNCHANGED <<now, monitorVars, trackerVars, ensembleVars, automlVars, cliVars,
                   current_symbol>>
    /\ \E kalman_ok, train_ok, predict_ok \in BOOLEAN :
         LET key      == SymbolOrder[loop_pos]
             s        == sym[key]
             call     == EnsembleForecasterForecast(
                            s.historial, EnsembleMinSamples, s.automl_model,
                            s.last_train_size, kalman_ok, LastPrice(s.historial) + 1,
                            train_ok, predict_ok, LastPrice(s.historial) + 1, 2,
                            kalman_weight, automl_weight, now)
             forecast == call.result
             s1       == [s EXCEPT !.automl_model = call.model,
                                   !.last_train_size = call.last_train_size]
             next_pos == IF loop_pos = Len(SymbolOrder) THEN 1 ELSE loop_pos + 1
         IN  IF Len(s.historial) < KalmanMinSamples
             THEN /\ kalman_ok /\ train_ok /\ predict_ok
                  /\ loop_pos' = next_pos
                  /\ UNCHANGED sym
                  /\ last' = [op |-> "loop_body", key |-> key, exc |-> None]
             ELSE IF forecast = None
             THEN /\ sym' = DictSet(sym, key, s1)
                  /\ loop_pos' = next_pos
                  /\ last' = [op |-> "loop_body", key |-> key, exc |-> None]
             ELSE IF AddRaises(forecast[1])
             THEN /\ sym' = DictSet(sym, key, [s1 EXCEPT !.last_forecast = forecast])
                  /\ loop_pos' = 1
                  /\ last' = [op |-> "loop_body", key |-> key,
                              exc |-> Some("KeyError")]
             ELSE LET added == add_prediction(s.predictions, forecast[1], now,
                                              s.adds + 1)
                      st    == validate_predictions(added, s.validated_predictions,
                                                    s.historial, now)
                  IN  /\ s.adds < MaxDriverAdds
                      /\ sym' = DictSet(sym, key,
                                  [s1 EXCEPT !.last_forecast = forecast,
                                             !.predictions = st.predictions,
                                             !.validated_predictions =
                                                  st.validated_predictions,
                                             !.adds = @ + 1])
                      /\ loop_pos' = next_pos
                      /\ last' = [op |-> "loop_body", key |-> key, exc |-> None]

\* the `switch <key>` command with a configured key (cli.py:484-500)
CmdSwitch(k) ==
    /\ UNCHANGED <<threadVars, handlerVars, lateVars, cycle_iter>>
    /\ program = "cli"
    /\ current_symbol' = k
    /\ last' = [op |-> "switch", key |-> k]
    /\ UNCHANGED <<now, monitorVars, trackerVars, ensembleVars, automlVars, cliVars,
                   sym, loop_pos>>

\* the validation pass of the `status` command on the current symbol
\* (cli.py:210)
CmdStatus ==
    /\ UNCHANGED <<threadVars, handlerVars, lateVars, cycle_iter>>
    /\ program = "cli"
    /\ LET s  == sym[current_symbol]
           st == validate_predictions(s.predictions, s.validated_predictions,
                                      s.historial, now)
       IN  sym' = DictSet(sym, current_symbol,
                    [s EXCEPT !.predictions = st.predictions,
                              !.validated_predictions = st.validated_predictions])
    /\ last' = [op |-> "cmd_status", key |-> current_symbol]
    /\ UNCHANGED <<now, monitorVars, trackerVars, ensembleVars, automlVars, cliVars,
                   current_symbol, loop_pos>>

\* GGALForecaster.generate_trading_signal(historial), also behind
\* GET /api/trading-signal (app.py:199-206)
HeuristicSignalCall ==
    /\ UNCHANGED <<extVars, cycle_iter>>
    /\ \E methods_used \in {{}, Models}, d \in {-1, 0, 1} :
         LET forecast == ensemble_forecast(historial, KalmanMinSamples, HorizonMinutes,
                                           LastPrice(historial) + d, methods_used, now)
         IN  last' = [op |-> "generate_trading_signal", forecaster |-> "GGALForecaster",
                      n |-> Len(historial), forecast |-> forecast,
                      signal |-> HeuristicTradingSignal(historial, KalmanMinSamples,
                                                        forecast)]
    /\ UNCHANGED <<now, monitorVars, trackerVars, ensembleVars, automlVars, cliVars>>

\* AutoMLForecaster.generate_trading_signal(historial)
AutoMLSignalCall ==
    /\ UNCHANGED <<extVars, cycle_iter>>
    /\ \E train_ok, predict_ok \in BOOLEAN, d \in {-1, 0, 1}, width \in {2, 150, 250} :
         LET am == AutoMLForecast(historial, EnsembleMinSamples, automl_model,
                                  last_train_size, train_ok, predict_ok,
                                  LastPrice(historial) + d, width, now)
         IN  /\ automl_model' = am.model
             /\ last_train_size' = am.last_train_size
             /\ last' = [op |-> "generate_trading_signal",
                         forecaster |-> "AutoMLForecaster",
                         n |-> Len(historial), forecast |-> am.result,
                         signal |-> AutoMLTradingSignal(historial, EnsembleMinSamples,
                                                        am.result)]
    /\ UNCHANGED <<now, monitorVars, trackerVars, ensembleVars, cliVars>>

\* EnsembleForecaster.generate_trading_signal(historial); below min_samples
\* it hands over to self.kalman.generate_trading_signal (line 149)
EnsembleSignalCall ==
    /\ UNCHANGED <<extVars, cycle_iter>>
    /\ \E kalman_ok, predict_ok \in BOOLEAN, d \in {-1, 0, 1}, width \in {2, 250} :
         LET call == EnsembleForecasterForecast(historial, EnsembleMinSamples,
                         automl_model, last_train_size, kalman_ok,
                         LastPrice(historial) + d, TRUE, predict_ok,
                         LastPrice(historial), width,
                         kalman_weight, automl_weight, now)
             kalman_signal ==
                 HeuristicTradingSignal(historial, KalmanMinSamples,
                     ensemble_forecast(historial, KalmanMinSamples, HorizonMinutes,
                                       LastPrice(historial) + d, Models, now))
         IN  /\ automl_model' = call.model
             /\ last_train_size' = call.last_train_size
             /\ last' = [op |-> "generate_trading_signal",
                         forecaster |-> "EnsembleForecaster",
                         n |-> Len(historial),
                         forecast |-> IF Len(historial) < EnsembleMinSamples THEN None
                                      ELSE call.result,
                         signal |-> EnsembleTradingSignal(historial, EnsembleMinSamples,
                                                          call.result, kalman_signal)]
    /\ UNCHANGED <<now, monitorVars, trackerVars, ensembleVars, cliVars>>

\* KalmanFilter.update(measurement)
EstimatorUpdate ==
    /\ UNCHANGED <<coreVars, threadVars, handlerVars, symbolVars, automl_trained, val>>
    /\ LET count == IF "count" \in DOMAIN last THEN last.count ELSE 0
       IN  /\ count < MaxMeasurements
           /\ \E measurement \in PriceSet :
                /\ kf' = KalmanUpdate(kf, measurement)
                /\ last' = [op |-> "update", measurement |-> measurement,
                            count |-> count + 1]

\* KalmanFilter.predict(steps); again says that the call before was the same
EstimatorPredict ==
    /\ UNCHANGED <<coreVars, threadVars, handlerVars, symbolVars, automl_trained, val>>
    /\ \E steps \in {1, HorizonMinutes} :
         LET out == KalmanPredict(kf, steps)
         IN  /\ kf' = out.state
             /\ last' = [op |-> "predict", steps |-> steps, result |-> out.result,
                         count |-> IF "count" \in DOMAIN last THEN last.count ELSE 0,
                         again |-> last.op = "predict" /\ last.steps = steps]

\* MultiSymbolCLI._stop_forecasting (cli.py:652-656)
StopForecasting ==
    /\ UNCHANGED <<extVars, cycle_iter>>
    /\ program = "cli"
    /\ forecasting_running
    /\ forecasting_running' = FALSE
    /\ last' = [op |-> "stop_forecasting"]
    /\ UNCHANGED <<now, monitorVars, trackerVars, ensembleVars, automlVars,
                   program, use_automl, last_forecasts>>

\* GGALForecaster.ensemble_forecast(historial) on its own
HeuristicForecastCall ==
    /\ UNCHANGED <<extVars, cycle_iter>>
    /\ \E methods_used \in {{}, Models} :
          last' = [op |-> "heuristic_forecast", n |-> Len(historial),
                   result |-> ensemble_forecast(historial, KalmanMinSamples,
                                 HorizonMinutes, LastPrice(historial) + 1,
                                 methods_used, now)]
    /\ UNCHANGED <<now, monitorVars, trackerVars, ensembleVars, automlVars, cliVars>>

\* AutoMLForecaster.forecast(historial) on its own
AutoMLForecastCall ==
    /\ UNCHANGED <<extVars, cycle_iter>>
    /\ \E train_ok, predict_ok \in BOOLEAN, width \in {2, 250} :
          LET am == AutoMLForecast(historial, EnsembleMinSamples, automl_model,
                                   last_train_size, train_ok, predict_ok,
                                   LastPrice(historial) + 1, width, now)
          IN  /\ automl_model' = am.model
              /\ last_train_size' = am.last_train_size
              /\ last' = [op |-> "automl_forecast", n |-> Len(historial),
                          result |-> am.result]
    /\ UNCHANGED <<now, monitorVars, trackerVars, ensembleVars, cliVars>>

\* a sample appended to the history an AutoMLForecaster is asked about
AutoMLPoll ==
    /\ polls < MaxPolls
    /\ \E price \in PriceSet :
          historial' = DequeAppend(historial, [timestamp |-> now, price |-> price],
                                   HistMaxLen)
    /\ polls' = polls + 1
    /\ automl_trained' = IF automl_model = None THEN automl_trained
                         ELSE [automl_trained EXCEPT !.behind = @ + 1]
    /\ last' = [op |-> "poll"]
    /\ UNCHANGED <<now, trackerVars, ensembleVars, automlVars, cliVars, cycle_iter,
                   threadVars, handlerVars, symbolVars, kf, val>>

\* AutoMLForecaster.forecast(historial) with the model it holds: fresh is what
\* a new AutoMLForecaster, whose fit and prediction succeed, returns for the
\* same history
AutoMLForecastFitted ==
    /\ \E train_ok, predict_ok \in BOOLEAN, width \in {2, 250} :
          LET n       == Len(historial)
              retrain == /\ n >= EnsembleMinSamples
                         /\ ShouldRetrain(automl_model, last_train_size, n)
              fitted  == IF retrain /\ train_ok THEN ArimaFit(historial)
                         ELSE automl_trained
              am      == AutoMLForecast(historial, EnsembleMinSamples, automl_model,
                                        last_train_size, train_ok, predict_ok,
                                        ArimaPredict(fitted), width, now)
              fresh   == AutoMLForecast(historial, EnsembleMinSamples, None, 0,
                                        TRUE, TRUE,
                                        ArimaPredict(ArimaFit(historial)), width, now)
          IN  /\ automl_model' = am.model
              /\ last_train_size' = am.last_train_size
              /\ automl_trained' = fitted
              /\ last' = [op |-> "automl_forecast", n |-> n, result |-> am.result,
                          fresh |-> fresh.result, retrained |-> retrain /\ train_ok]
    /\ UNCHANGED <<now, monitorVars, trackerVars, ensembleVars, cliVars, cycle_iter,
                   threadVars, handlerVars, symbolVars, kf, val>>

\* EnsembleForecaster.forecast(historial) on its own
EnsembleForecastCall ==
    /\ UNCHANGED <<extVars, cycle_iter>>
    /\ \E kalman_ok, train_ok, predict_ok \in BOOLEAN, d \in {-1, 1}, width \in {2, 250} :
          LET call == EnsembleForecasterForecast(historial, EnsembleMinSamples,
                          automl_model, last_train_size, kalman_ok,
                          LastPrice(historial) + d, train_ok, predict_ok,
                          LastPrice(historial) + 1, width,
                          kalman_weight, automl_weight, now)
          IN  /\ automl_model' = call.model
              /\ last_train_size' = call.last_train_size
              /\ last' = [op |-> "ensemble_forecast", n |-> Len(historial),
                          kalman_pred |-> call.kalman_pred,
                          automl_pred |-> call.automl_pred,
                          result |-> call.result]
    /\ UNCHANGED <<now, monitorVars, trackerVars, ensembleVars, cliVars>>

\* EnsembleForecaster.update_weights(a, b)
UpdateWeights ==
    /\ UNCHANGED <<extVars, cycle_iter>>
    /\ \E a, b \in ScoreSet :
          LET w == update_weights(kalman_weight, automl_weight, a, b)
          IN  /\ kalman_weight' = w[1]
              /\ automl_weight' = w[2]
              /\ last' = [op |-> "update_weights", kalman_effectiveness |-> a,
                          automl_effectiveness |-> b]
    /\ UNCHANGED <<now, monitorVars, trackerVars, automlVars, cliVars>>

(***************************************************************************)
(* PriceMonitor.start, stop and the polling threads, one step per          *)
(* statement that reads or writes state another thread can see.            *)
(***************************************************************************)
\* PriceMonitor.start (monitor.py:175-183)
MonitorStart ==
    /\ UNCHANGED <<handlerVars, symbolVars, lateVars>>
    /\ starts < MaxStarts
    /\ IF ~running
       THEN /\ mon_pc' = [mon_pc EXCEPT ![starts + 1] = "spawned"]
            /\ starts' = starts + 1
       ELSE UNCHANGED <<mon_pc, starts>>
    /\ stopped' = FALSE
    /\ last' = [op |-> "start", spawned |-> ~running]
    /\ UNCHANGED <<coreVars, running, api_type, mon_precio, mon_iter>>

\* PriceMonitor.stop (monitor.py:185-189); join(timeout=2) returns whether or
\* not the thread has ended
MonitorStop ==
    /\ UNCHANGED <<handlerVars, symbolVars, lateVars>>
    /\ running' = FALSE
    /\ stopped' = TRUE
    /\ last' = [op |-> "stop"]
    /\ UNCHANGED <<coreVars, api_type, starts, mon_pc, mon_precio, mon_iter>>

\* the first statement of monitorear_background (monitor.py:164)
MonitorEnter(t) ==
    /\ UNCHANGED <<handlerVars, symbolVars, lateVars>>
    /\ mon_pc[t] = "spawned"
    /\ running' = TRUE
    /\ mon_pc' = [mon_pc EXCEPT ![t] = "loop"]
    /\ last' = [op |-> "monitor_enter", thread |-> t]
    /\ UNCHANGED <<coreVars, api_type, starts, stopped, mon_precio, mon_iter>>

\* an iteration that an exception ends
MonitorIterateDies(t) ==
    /\ UNCHANGED <<handlerVars, symbolVars, lateVars>>
    /\ mon_pc[t] = "loop"
    /\ IF ~running
       THEN /\ mon_pc' = [mon_pc EXCEPT ![t] = "exited"]
            /\ last' = [op |-> "monitor_exit", thread |-> t]
            /\ UNCHANGED <<polls, mon_precio, mon_iter>>
       ELSE \E answer \in Answers(api_type) :
              LET got == obtener_precio(api_type, answer[1], answer[2], now)
              IN  /\ got.precio # None => polls < MaxPolls
                  /\ polls' = IF got.precio # None THEN polls + 1 ELSE polls
                  /\ mon_precio' = [mon_precio EXCEPT ![t] = got.precio]
                  /\ mon_pc' = [mon_pc EXCEPT ![t] =
                                   IF got.exc # None THEN "exited"
                                   ELSE IF got.precio # None THEN "fetched" ELSE "loop"]
                  /\ mon_iter' = 1 - mon_iter
                  /\ last' = [op |-> "monitor_iteration", thread |-> t,
                              answer |-> answer, precio |-> got.precio,
                              exc |-> got.exc]
    /\ UNCHANGED <<now, historial, trackerVars, ensembleVars, automlVars, cliVars,
                   cycle_iter, running, api_type, starts, stopped>>

\* the test of `while self.running` and, when it holds, obtener_precio()
\* (monitor.py:166-168, 171-173): the thread leaves the loop, or holds a
\* sample to append, or goes to sleep and to the next iteration
MonitorIterate(t) ==
    /\ UNCHANGED <<handlerVars, symbolVars, lateVars>>
    /\ mon_pc[t] = "loop"
    /\ IF ~running
       THEN /\ mon_pc' = [mon_pc EXCEPT ![t] = "exited"]
            /\ last' = [op |-> "monitor_exit", thread |-> t]
            /\ UNCHANGED <<polls, mon_precio, mon_iter>>
       ELSE \E answer \in Answers(api_type) :
              LET got == obtener_precio(api_type, answer[1], answer[2], now)
              IN  /\ got.precio # None => polls < MaxPolls
                  /\ polls' = IF got.precio # None THEN polls + 1 ELSE polls
                  /\ mon_precio' = [mon_precio EXCEPT ![t] = got.precio]
                  /\ mon_pc' = [mon_pc EXCEPT ![t] =
                                   IF got.precio # None THEN "fetched" ELSE "loop"]
                  /\ mon_iter' = 1 - mon_iter
                  /\ last' = [op |-> "monitor_iteration", thread |-> t,
                              answer |-> answer, precio |-> got.precio,
                              exc |-> got.exc]
    /\ UNCHANGED <<now, historial, trackerVars, ensembleVars, automlVars, cliVars,
                   cycle_iter, running, api_type, starts, stopped>>

\* self.historial.append(precio), then the sleep (monitor.py:169-170, 173)
MonitorAppend(t) ==
    /\ UNCHANGED <<handlerVars, symbolVars, lateVars>>
    /\ mon_pc[t] = "fetched"
    /\ historial' = DequeAppend(historial, mon_precio[t][1], HistMaxLen)
    /\ mon_precio' = [mon_precio EXCEPT ![t] = None]
    /\ mon_pc' = [mon_pc EXCEPT ![t] = "loop"]
    /\ last' = [op |-> "monitor_append", thread |-> t, precio |-> mon_precio[t]]
    /\ UNCHANGED <<now, polls, trackerVars, ensembleVars, automlVars, cliVars,
                   cycle_iter, running, api_type, starts, stopped, mon_iter>>

(***************************************************************************)
(***************************************************************************)
(* validate_predictions called by several threads on one tracker, one step *)
(* per read or write of the tracker's deques (prediction_tracker.py:55-120)*)
(***************************************************************************)
\* lines 66-78: the early return, or current_time and historial_dict
ValidateEnter(t) ==
    /\ val[t].pc = "idle"
    /\ IF historial = <<>>
       THEN /\ UNCHANGED val
            /\ last' = [op |-> "validate_return", thread |-> t, count |-> 0]
       ELSE /\ val' = [val EXCEPT ![t] =
                         [pc |-> "loop", i |-> 1,
                          historial_dict |-> HistorialDict(historial),
                          validated_count |-> 0, current_time |-> now,
                          actual_price |-> None]]
            /\ last' = [op |-> "validate_enter", thread |-> t]
    /\ UNCHANGED <<coreVars, threadVars, handlerVars, symbolVars, kf, automl_trained>>

\* lines 81-96: the next record of the loop, or the return at line 120; a
\* record that is unvalidated, due and has a sample near its target goes on
\* to the writes
ValidateTest(t) ==
    /\ val[t].pc = "loop"
    /\ IF val[t].i > Len(predictions)
       THEN /\ val' = [val EXCEPT ![t] = NotValidating]
            /\ last' = [op |-> "validate_return", thread |-> t,
                        count |-> val[t].validated_count]
       ELSE LET pred   == predictions[val[t].i]
                actual == FindClosestPrice(TargetTime(pred), val[t].historial_dict)
            IN  /\ val' = [val EXCEPT ![t] =
                             IF pred.validated \/ val[t].current_time < TargetTime(pred)
                                \/ actual = None
                             THEN [@ EXCEPT !.i = @ + 1]
                             ELSE [@ EXCEPT !.pc = "found", !.actual_price = actual]]
                /\ last' = [op |-> "validate_test", thread |-> t]
    /\ UNCHANGED <<coreVars, threadVars, handlerVars, symbolVars, kf, automl_trained>>

\* lines 98-114: the writes into the record, which is the object the deque
\* holds, and the append of its copy to validated_predictions
ValidateStore(t) ==
    /\ val[t].pc = "found"
    /\ LET new == ValidatedRecord(predictions[val[t].i], val[t].actual_price[1],
                                  val[t].current_time)
       IN  /\ predictions' = [predictions EXCEPT ![val[t].i] = new]
           /\ validated_predictions' =
                  DequeAppend(validated_predictions, new, MaxPredictions)
    /\ val' = [val EXCEPT ![t] = [@ EXCEPT !.pc = "loop", !.i = @ + 1,
                                     !.validated_count = @ + 1,
                                     !.actual_price = None]]
    /\ last' = [op |-> "validate_store", thread |-> t]
    /\ UNCHANGED <<now, monitorVars, adds, ensembleVars, automlVars, cliVars, cycle_iter,
                   threadVars, handlerVars, symbolVars, kf, automl_trained>>

(* Specifications.                                                          *)
(***************************************************************************)
\* the tracker and the history it is validated against
Next ==
    \/ Tick
    \/ Poll
    \/ AddPrediction
    \/ ValidatePredictions

Spec == Init /\ [][Next]_vars

\* the drivers of the forecast -> track -> validate pipeline
NextPipeline ==
    \/ Tick
    \/ Poll
    \/ AddPrediction
    \/ ApiForecast
    \/ ApiPredictionMetrics
    \/ CliCycle
    \/ StopForecasting

SpecPipeline == InitPipeline /\ [][NextPipeline]_vars

\* the forecasters on their own
NextForecasters ==
    \/ Poll
    \/ HeuristicForecastCall
    \/ AutoMLForecastCall
    \/ EnsembleForecastCall
    \/ UpdateWeights

SpecForecasters == InitForecasters /\ [][NextForecasters]_vars

\* a monitor of either source, empty or one sample short of its capacity,
\* with its start(), stop() and polling threads
InitMonitor ==
    /\ \E h0 \in {<<>>, Prefill(HistMaxLen - 1)} : InitWith(h0, "lib", FALSE)
    /\ \E type \in {"stock", "crypto"} : InitMonitorOf(type)
    /\ InitRest(NewSymbol)

NextMonitor ==
    \/ Tick
    \/ MonitorStart
    \/ MonitorStop
    \/ \E t \in Threads : MonitorEnter(t)
    \/ \E t \in Threads : MonitorIterate(t)
    \/ \E t \in Threads : MonitorAppend(t)

SpecMonitor == InitMonitor /\ [][NextMonitor]_vars

\* the CLI after start(): one polling thread in its loop and the forecasting
\* loop running, with enough history for both forecasters
InitLoops ==
    /\ InitWith(Prefill(EnsembleMinSamples), "cli", TRUE)
    /\ running = TRUE
    /\ \E type \in {"stock", "crypto"} : api_type = type
    /\ starts = 1
    /\ stopped = FALSE
    /\ mon_pc = [t \in Threads |-> IF t = 1 THEN "loop" ELSE "none"]
    /\ mon_precio = [t \in Threads |-> None]
    /\ mon_iter = 0
    /\ InitRest(NewSymbol)

NextLoops ==
    \/ \E t \in Threads : MonitorIterate(t)
    \/ \E t \in Threads : MonitorAppend(t)
    \/ MonitorStop
    \/ CliCycle
    \/ StopForecasting

\* each thread that can take a step eventually takes one
SpecLoops ==
    /\ InitLoops
    /\ [][NextLoops]_vars
    /\ \A t \in Threads : WF_vars(MonitorIterate(t)) /\ WF_vars(MonitorAppend(t))
    /\ WF_vars(CliCycle)

\* every operation of the tracker
NextTracker ==
    \/ Tick
    \/ Poll
    \/ AddPrediction
    \/ ValidatePredictions
    \/ ClearOldPredictions
    \/ GetAccuracyMetrics

SpecTracker == InitTracker /\ [][NextTracker]_vars

\* the CLI with two symbols: the monitors' polling, the forecasting loop and
\* the commands that write state
InitSymbols ==
    /\ InitWith(<<>>, "cli", FALSE)
    /\ InitMonitorOf("stock")
    /\ InitRest(UsedSymbol)

NextSymbols ==
    \/ Tick
    \/ \E k \in Symbols : SymPoll(k)
    \/ LoopBody
    \/ \E k \in Symbols : CmdSwitch(k)
    \/ CmdStatus

SpecSymbols == InitSymbols /\ [][NextSymbols]_vars

\* the CLI started with AutoML for two symbols, its forecasting loop running
InitPass ==
    /\ InitWith(<<>>, "cli", TRUE)
    /\ InitMonitorOf("stock")
    /\ InitRest(EnsembleSymbol)

NextPass ==
    \/ \E k \in Symbols : SymPoll(k)
    \/ LoopBodyEnsemble

SpecPass == InitPass /\ [][NextPass]_vars

\* the three signal generators on a growing history, with the ensemble's
\* weights changing
NextSignals ==
    \/ Poll
    \/ UpdateWeights
    \/ HeuristicSignalCall
    \/ AutoMLSignalCall
    \/ EnsembleSignalCall

SpecSignals == InitForecasters /\ [][NextSignals]_vars

\* an AutoMLForecaster one sample short of its first training; one whose
\* model was fitted at 30 samples, 9 samples ago; and one whose model was
\* fitted when the history reached its capacity, 9 samples ago
InitAutoML ==
    /\ \E c \in {[h |-> Prefill(EnsembleMinSamples - 1), model |-> None, size |-> 0,
                  behind |-> 0],
                 [h |-> Prefill(EnsembleMinSamples + RetrainEvery - 1),
                  model |-> Some(EnsembleMinSamples), size |-> EnsembleMinSamples,
                  behind |-> RetrainEvery - 1],
                 [h |-> Prefill(HistMaxLen), model |-> Some(HistMaxLen),
                  size |-> HistMaxLen, behind |-> RetrainEvery - 1]} :
          /\ historial = c.h
          /\ automl_model = c.model
          /\ last_train_size = c.size
          /\ automl_trained = [price |-> BasePrice, behind |-> c.behind]
    /\ now = 0
    /\ polls = 0
    /\ predictions = <<>>
    /\ validated_predictions = <<>>
    /\ adds = 0
    /\ kalman_weight = DefaultKalmanWeight
    /\ automl_weight = DefaultAutomlWeight
    /\ program = "lib"
    /\ use_automl = TRUE
    /\ last_forecasts = None
    /\ forecasting_running = TRUE
    /\ cycle_iter = 0
    /\ last = [op |-> "init"]
    /\ InitMonitorOf("stock")
    /\ handler_pc = [t \in HandlerThreads |-> "idle"]
    /\ handler_forecasts = [t \in HandlerThreads |-> None]
    /\ sym = [k \in Symbols |-> NewSymbol]
    /\ current_symbol = SymbolOrder[1]
    /\ loop_pos = 1
    /\ kf = NewFilter
    /\ val = [t \in HandlerThreads |-> NotValidating]

NextAutoML ==
    \/ AutoMLPoll
    \/ AutoMLForecastFitted

SpecAutoML == InitAutoML /\ [][NextAutoML]_vars

\* the tracker of the web application holding a record whose target time has
\* come, and the history holding a sample taken at that time
InitValidate ==
    /\ now = 0
    /\ historial = <<[timestamp |-> 0, price |-> BasePrice]>>
    /\ polls = 0
    /\ predictions = <<PredictionRecord(ForecastData(BasePrice, BasePrice + 1, 1),
                                        -60, 1)>>
    /\ validated_predictions = <<>>
    /\ adds = 1
    /\ kalman_weight = DefaultKalmanWeight
    /\ automl_weight = DefaultAutomlWeight
    /\ automl_model = None
    /\ last_train_size = 0
    /\ program = "app"
    /\ use_automl = FALSE
    /\ last_forecasts = None
    /\ forecasting_running = TRUE
    /\ cycle_iter = 0
    /\ last = [op |-> "init"]
    /\ InitExt

\* the request threads of the worker inside validate_predictions
NextValidate ==
    \/ Tick
    \/ \E t \in HandlerThreads : ValidateEnter(t)
    \/ \E t \in HandlerThreads : ValidateTest(t)
    \/ \E t \in HandlerThreads : ValidateStore(t)

SpecValidate == InitValidate /\ [][NextValidate]_vars

\* an estimator fed measurements and asked for predictions
NextEstimator ==
    \/ EstimatorUpdate
    \/ EstimatorPredict

SpecEstimator == Init /\ [][NextEstimator]_vars

\* the Flask application under gunicorn_config.py: one worker, two request
\* threads
InitHandlers == InitWith(Prefill(KalmanMinSamples - 1), "app", FALSE) /\ InitExt

NextHandlers ==
    \/ Tick
    \/ Poll
    \/ \E t \in HandlerThreads : HandlerBegin(t)
    \/ \E t \in HandlerThreads : HandlerAdd(t)
    \/ \E t \in HandlerThreads : HandlerValidate(t)

SpecHandlers == InitHandlers /\ [][NextHandlers]_vars

(***************************************************************************)
(* Properties of the tracker (Spec).                                       *)
(***************************************************************************)
\* the index in seq of the record with identity rid, or 0
IndexOf(seq, rid) ==
    IF \E i \in 1..Len(seq) : seq[i].rid = rid
    THEN CHOOSE i \in 1..Len(seq) : seq[i].rid = rid
    ELSE 0

\* some sample of history h lies within the tolerance of the target of p
HasSampleNear(h, p) ==
    \E k \in 1..Len(h) : Abs(h[k].timestamp - TargetTime(p)) <= Tolerance

\* the records of the step that go from unvalidated to validated, in order
NewlyValidatedIdx ==
    {j \in 1..Len(predictions') :
        /\ predictions'[j].validated
        /\ \E i \in 1..Len(predictions) :
              predictions[i].rid = predictions'[j].rid /\ ~predictions[i].validated}

\* C1: a record goes from unvalidated to validated only when its target time
\* has passed and the history holds a sample within 30 seconds of the target;
\* the step sets actual_price to the price of such a sample, error to
\* actual - predicted and within_interval from the record's own bounds, and
\* appends a copy of the completed record to the validated buffer.
C1_ValidationOutcome ==
    [][\A j \in NewlyValidatedIdx :
          LET q == predictions'[j]
              p == predictions[IndexOf(predictions, q.rid)]
              actual == q.actual_price[1]
          IN  /\ TargetTime(p) <= now
              /\ \E k \in 1..Len(historial) :
                    /\ Abs(historial[k].timestamp - TargetTime(p)) <= Tolerance
                    /\ q.actual_price = Some(historial[k].price)
              /\ q.error = Some(actual - p.predicted_price)
              /\ q.within_interval = (p.lower_bound <= actual /\ actual <= p.upper_bound)
              /\ \A k \in DOMAIN p \ {"validated", "actual_price", "error"} : q[k] = p[k]
              /\ \E m \in 1..Len(validated_predictions') :
                    /\ validated_predictions'[m] = q
                    /\ m > Len(validated_predictions')
                           - Cardinality(NewlyValidatedIdx)
      ]_vars

\* C1 witness: a validate_predictions call has just validated a record whose
\* actual price fell outside its interval
C1_Witness ==
    /\ last.op = "validate_predictions"
    /\ last.count >= 1
    /\ \E i \in 1..Len(predictions) :
          /\ predictions[i].validated
          /\ predictions[i].validation_time = now
          /\ ~predictions[i].within_interval
          /\ \E m \in 1..Len(validated_predictions) :
                validated_predictions[m] = predictions[i]

\* C2: a record whose target time has no sample within 30 seconds in the
\* history (the history of Spec only grows, so none ever was there) is
\* still pending: validated is false and it carries no actual price, no
\* error and no other mark.
C2_UnmatchedStaysPending ==
    \A i \in 1..Len(predictions) :
        ~HasSampleNear(historial, predictions[i]) =>
            /\ ~predictions[i].validated
            /\ predictions[i].actual_price = None
            /\ predictions[i].error = None
            /\ "validation_time" \notin DOMAIN predictions[i]
            /\ \A m \in 1..Len(validated_predictions) :
                  validated_predictions[m].rid # predictions[i].rid

\* C2 witness: validate_predictions has just run on a non-empty history with
\* a record that is due and has no sample within the tolerance
C2_Witness ==
    /\ last.op = "validate_predictions"
    /\ historial # <<>>
    /\ \E i \in 1..Len(predictions) :
          /\ now >= TargetTime(predictions[i]) + Tolerance
          /\ ~HasSampleNear(historial, predictions[i])
          /\ ~predictions[i].validated

C4_AddAndBounds ==
    /\ [](Len(predictions) <= MaxPredictions
          /\ Len(validated_predictions) <= MaxPredictions)
    /\ [][last'.op = "add_prediction" =>
            LET n  == Len(predictions)
                n2 == Len(predictions')
                new == predictions'[n2]
            IN  /\ n2 = IF n < MaxPredictions THEN n + 1 ELSE MaxPredictions
                /\ ~new.validated /\ new.actual_price = None /\ new.error = None
                /\ new.timestamp = now
                /\ new.predicted_price = last'.forecast.prediction
                /\ \A i \in 1..n : predictions[i].rid # new.rid
                /\ IF n < MaxPredictions
                   THEN SubSeq(predictions', 1, n2 - 1) = predictions
                   ELSE SubSeq(predictions', 1, n2 - 1) = Tail(predictions)
                /\ validated_predictions' = validated_predictions
         ]_vars

\* C4 witness: an add_prediction on a full buffer has evicted a record
C4_Witness ==
    /\ last.op = "add_prediction"
    /\ Len(predictions) = MaxPredictions
    /\ adds > MaxPredictions
    /\ predictions[1].rid = adds - MaxPredictions + 1

(***************************************************************************)
(* Properties of the drivers of the pipeline (SpecPipeline).               *)
(***************************************************************************)
\* the step is a forecast cycle (an iteration of the CLI loop or a
\* GET /api/forecast) that produced no forecast
NoForecastCycle ==
    /\ last'.op \in {"cli_cycle", "api_forecast"}
    /\ last'.produced = None

C6_ProducedForecastIsRecordable ==
    (last.op \in {"api_forecast", "cli_cycle"} /\ last.produced # None) =>
        /\ ReadFields \subseteq DOMAIN last.produced[1]
        /\ last.exc = None

\* C7 as stated: GET /api/forecast and GET /api/prediction-metrics answer
\* 200 or 202 in every reachable state.
C7_HandlersAnswer200Or202 ==
    last.op \in {"api_forecast", "api_prediction_metrics"} =>
        last.status \in {200, 202}

(***************************************************************************)
(* Properties of the forecasters (SpecForecasters).                        *)
(***************************************************************************)
\* C8: when exactly one of the two components of EnsembleForecaster.forecast
\* returned a forecast, the result is that forecast, unmodified; the result
\* is null only when neither component returned a forecast.
C8_EnsembleDegradation ==
    last.op = "ensemble_forecast" =>
        /\ (last.kalman_pred = None /\ last.automl_pred # None) =>
              last.result = last.automl_pred
        /\ (last.kalman_pred # None /\ last.automl_pred = None) =>
              last.result = last.kalman_pred
        /\ (last.result = None) <=>
              (last.kalman_pred = None /\ last.automl_pred = None)

\* C8 witness: the first component returned nothing and the result is the
\* second component's forecast
C8_Witness ==
    /\ last.op = "ensemble_forecast"
    /\ last.n >= EnsembleMinSamples
    /\ last.kalman_pred = None
    /\ last.automl_pred # None
    /\ last.result = last.automl_pred

\* C9 as stated: each forecaster returns null whenever the history is shorter
\* than its min_samples.
C9_NullBelowMinSamples ==
    /\ (last.op = "heuristic_forecast" /\ last.n < KalmanMinSamples) =>
          last.result = None
    /\ (last.op = "automl_forecast" /\ last.n < EnsembleMinSamples) =>
          last.result = None
    /\ (last.op = "ensemble_forecast" /\ last.n < EnsembleMinSamples) =>
          last.result = None

\* C9 amended: the heuristic ensemble and the AutoML model return null
\* whenever the history is shorter than their min_samples; the weighted
\* ensemble returns null when the history is shorter than 10 samples, and
\* for a history of at least 10 samples but fewer than its min_samples it
\* returns what its first component returns, without calling the second.
C9_NullBelowOwnThreshold ==
    /\ (last.op = "heuristic_forecast" /\ last.n < KalmanMinSamples) =>
          last.result = None
    /\ (last.op = "automl_forecast" /\ last.n < EnsembleMinSamples) =>
          last.result = None
    /\ (last.op = "ensemble_forecast" /\ last.n < KalmanMinSamples) =>
          last.result = None
    /\ (last.op = "ensemble_forecast" /\ last.n >= KalmanMinSamples
                                      /\ last.n < EnsembleMinSamples) =>
          /\ last.result = last.kalman_pred
          /\ last.automl_pred = None

\* C9 witness: the weighted ensemble, below its min_samples, returned its
\* first component's forecast
C9_Witness ==
    /\ last.op = "ensemble_forecast"
    /\ last.n >= KalmanMinSamples
    /\ last.n < EnsembleMinSamples
    /\ last.result # None
    /\ last.result = last.kalman_pred

\* the two weights sum to 1
WeightsSumToOne ==
    kalman_weight.num * automl_weight.den + automl_weight.num * kalman_weight.den
        = kalman_weight.den * automl_weight.den

\* C10 as stated: update_weights(a, b) leaves the weights unchanged when both
\* scores are <= 0 and otherwise sets them to (a/(a+b), b/(a+b)); the two
\* weights sum to 1 in every state.
C10_ProportionalUnlessBothNonPositive ==
    /\ []WeightsSumToOne
    /\ [][last'.op = "update_weights" =>
            LET a == last'.kalman_effectiveness
                b == last'.automl_effectiveness
            IN  IF a <= 0 /\ b <= 0
                THEN /\ kalman_weight' = kalman_weight
                     /\ automl_weight' = automl_weight
                ELSE /\ kalman_weight'.num * (a + b) = a * kalman_weight'.den
                     /\ automl_weight'.num * (a + b) = b * automl_weight'.den
         ]_vars

\* C10 amended: update_weights(a, b) sets the weights to (a/(a+b), b/(a+b))
\* when a + b > 0 and leaves both unchanged when a + b <= 0; the two weights
\* sum to 1 in every state.
C10_ProportionalWhenSumPositive ==
    /\ []WeightsSumToOne
    /\ [][last'.op = "update_weights" =>
            LET a == last'.kalman_effectiveness
                b == last'.automl_effectiveness
            IN  IF a + b > 0
                THEN /\ kalman_weight'.num * (a + b) = a * kalman_weight'.den
                     /\ automl_weight'.num * (a + b) = b * automl_weight'.den
                ELSE /\ kalman_weight' = kalman_weight
                     /\ automl_weight' = automl_weight
         ]_vars

\* C10 witness: a call with two different positive scores has moved the
\* weights off their initial values
C10_Witness ==
    /\ last.op = "update_weights"
    /\ last.kalman_effectiveness > 0
    /\ last.automl_effectiveness > 0
    /\ last.kalman_effectiveness # last.automl_effectiveness
    /\ kalman_weight # DefaultKalmanWeight
    /\ kalman_weight.num * (last.kalman_effectiveness + last.automl_effectiveness)
          = last.kalman_effectiveness * kalman_weight.den

(***************************************************************************)
(* Properties of the price monitor (SpecMonitor).                          *)
(***************************************************************************)
\* C11 as stated: every sample of the history has a price above zero,
\* whichever source the monitor polls.
C11_EverySamplePositive ==
    \A i \in 1..Len(historial) : historial[i].price > 0

\* C12: the history never holds more than its capacity, and an append to a
\* history at capacity removes exactly the oldest sample and keeps the length.
C12_HistoryEvictsOldest ==
    /\ [](Len(historial) <= HistMaxLen)
    /\ [][last'.op = "monitor_append" =>
            IF Len(historial) = HistMaxLen
            THEN /\ historial' = Append(Tail(historial), last'.precio[1])
                 /\ Len(historial') = HistMaxLen
            ELSE historial' = Append(historial, last'.precio[1])
         ]_vars

\* C12 witness: an append has evicted the oldest sample of a full history
C12_Witness ==
    /\ last.op = "monitor_append"
    /\ Len(historial) = HistMaxLen
    /\ historial[1] = Prefill(HistMaxLen - 1)[2]
    /\ historial[HistMaxLen] = last.precio[1]

\* C13 as stated: the timestamps of the history are non-decreasing in buffer
\* order, for any sequence of start, stop and polling iterations.
C13_TimestampsNonDecreasing ==
    \A i \in 1..(Len(historial) - 1) :
        historial[i].timestamp <= historial[i + 1].timestamp

\* C16 as stated: stop() changes none of the samples and records held, and
\* once stop() was called with no start() after it, a polling thread that
\* comes to the test of its loop leaves the loop.
C16_StopEndsLoopKeepsState ==
    [][/\ last'.op = "stop" =>
            /\ historial' = historial
            /\ predictions' = predictions
            /\ validated_predictions' = validated_predictions
       /\ \A t \in Threads :
            (stopped /\ stopped' /\ mon_pc[t] = "loop" /\ mon_pc'[t] # "loop") =>
                mon_pc'[t] = "exited"
      ]_vars

(***************************************************************************)
(* Properties of the two background loops (SpecLoops).                     *)
(***************************************************************************)
\* C15: after an iteration of the polling loop, or of the forecasting loop,
\* in which an exception was raised, another iteration of that loop follows
\* unless the loop's running flag is cleared.
C15_LoopsSurviveExceptions ==
    \A b \in {0, 1} :
        /\ (last.op = "monitor_iteration" /\ last.exc # None /\ mon_iter = b)
              ~> (mon_iter # b \/ ~running)
        /\ (last.op = "cli_cycle" /\ last.exc # None /\ cycle_iter = b)
              ~> (cycle_iter # b \/ ~forecasting_running)

\* C15 witness: an iteration of the polling loop has raised and the thread
\* is back at the head of its loop with the flag set, after an iteration of
\* the forecasting loop raised in add_prediction (the forecast is in the
\* latest-forecast slot and no record was created) and left its flag set
C15_Witness ==
    /\ last.op = "monitor_iteration"
    /\ last.exc # None
    /\ running
    /\ mon_pc[1] = "loop"
    /\ last_forecasts # None
    /\ adds = 0
    /\ forecasting_running

(***************************************************************************)
(* Properties of the request threads (SpecHandlers).                       *)
(***************************************************************************)
\* C14: no two forecast cycles for the same instrument run at the same time:
\* at most one thread is between the forecaster call and the end of the
\* validation pass.
C14_OneForecastCycleAtATime ==
    Cardinality({t \in HandlerThreads : handler_pc[t] # "idle"}) <= 1

(***************************************************************************)
(* Properties of the tracker's clean-up and metrics (SpecTracker).         *)
(***************************************************************************)
\* the unvalidated records of predictions that a step removes from it
LeavingUnvalidated ==
    {i \in 1..Len(predictions) :
        /\ ~predictions[i].validated
        /\ IndexOf(predictions', predictions[i].rid) = 0}

\* the step is an add_prediction on a full buffer that evicts the record at i
EvictedByAdd(i) ==
    /\ last'.op = "add_prediction"
    /\ Len(predictions) = MaxPredictions
    /\ i = 1

\* C18 as stated: an unvalidated record leaves the outstanding buffer only
\* by FIFO eviction, when add_prediction appends to a full buffer.
C18_PendingLeavesOnlyByEviction ==
    [][\A i \in LeavingUnvalidated : EvictedByAdd(i)]_vars

\* C18: an unvalidated record leaves the outstanding buffer only by FIFO
\* eviction in add_prediction on a full buffer, or by
\* clear_old_predictions(hours) when its timestamp is not later than hours
\* before the call; clear_old_predictions keeps every later record, and
\* validate_predictions and get_accuracy_metrics remove nothing.
C18_PendingLeavesByEvictionOrCleanup ==
    [][/\ \A i \in LeavingUnvalidated :
            \/ EvictedByAdd(i)
            \/ /\ last'.op = "clear_old_predictions"
               /\ predictions[i].timestamp <= now - 3600 * last'.hours
       /\ last'.op = "clear_old_predictions" =>
            \A i \in 1..Len(predictions) :
                predictions[i].timestamp > now - 3600 * last'.hours
                    => IndexOf(predictions', predictions[i].rid) # 0
       /\ last'.op \in {"validate_predictions", "get_accuracy_metrics"} =>
            Len(predictions') = Len(predictions)]_vars

\* clear_old_predictions(24) has removed the day-old unvalidated record and
\* kept a newer unvalidated one
C18_Witness ==
    /\ last.op = "clear_old_predictions"
    /\ last.hours = 24
    /\ last.removed = 1
    /\ \E i \in 1..Len(predictions) : ~predictions[i].validated

\* -1, 0 or 1
Sign(x) == IF x > 0 THEN 1 ELSE IF x < 0 THEN -1 ELSE 0

\* C19: the directional accuracy get_accuracy_metrics reports is the
\* percentage (to one decimal) of validated records for which the sign of
\* predicted - current equals the sign of actual - current, the sign being
\* positive, zero or negative.
C19_DirectionalAccuracyBySign ==
    (last.op = "get_accuracy_metrics" /\ last.result.metrics # None) =>
        LET v == validated_predictions
            same == {i \in 1..Len(v) :
                        Sign(v[i].predicted_price - v[i].current_price)
                          = Sign(v[i].actual_price[1] - v[i].current_price)}
        IN  last.result.metrics[1].directional_accuracy
              = RoundFrac(Frac(1000 * Cardinality(same), Len(v)))

\* C20: whenever validated records exist, the dict get_accuracy_metrics
\* returns has an effectiveness index within [0,100] and a rating.
C20_MetricsCarryEffectivenessIndex ==
    (last.op = "get_accuracy_metrics" /\ validated_predictions # <<>>) =>
        /\ {"effectiveness_index", "rating"} \subseteq DOMAIN last.result
        /\ last.result.effectiveness_index \in 0..100

(***************************************************************************)
(* Properties of the per-symbol state (SpecSymbols).                       *)
(***************************************************************************)
\* C17: an operation performed for one symbol (a poll's append, a pass of the
\* forecasting loop over it with its forecast, add_prediction and
\* validate_predictions, the validation of `status`) changes the history, the
\* tracker buffers and the latest forecast of that symbol only, and `switch`
\* changes those of no symbol.
C17_SymbolsAreIndependent ==
    [][\A k \in Symbols :
          sym'[k] # sym[k] =>
            /\ last'.op \in {"sym_poll", "loop_body", "cmd_status"}
            /\ last'.key = k]_vars

\* the loop has just recorded a forecast for BTC, and the two symbols differ
\* in history, outstanding buffer, validated buffer and latest forecast
C17_Witness ==
    /\ last.op = "loop_body"
    /\ last.key = "BTC"
    /\ sym["BTC"].adds = 1
    /\ sym["BTC"].historial # sym["GGAL"].historial
    /\ sym["BTC"].predictions # sym["GGAL"].predictions
    /\ sym["BTC"].validated_predictions # sym["GGAL"].validated_predictions
    /\ sym["BTC"].last_forecast # sym["GGAL"].last_forecast

(***************************************************************************)
(* Properties of the estimator (SpecEstimator).                            *)
(***************************************************************************)
\* C23: predict(steps) changes no estimator state, and a predict that follows
\* a predict with the same steps, with no update in between, returns the same
\* (price, std).
C23_PredictIsReadOnly ==
    [][last'.op = "predict" =>
          /\ kf' = kf
          /\ last'.again => last'.result = last.result]_vars

\* a prediction of an initialized estimator that repeats the call before it
C23_Witness ==
    /\ last.op = "predict"
    /\ last.again
    /\ last.count >= 2
    /\ kf.initialized
    /\ last.result[1] # None

(***************************************************************************)
(* Properties of the trading signals (SpecSignals).                        *)
(***************************************************************************)
\* C21: every signal generate_trading_signal returns carries a
\* signal_strength within [0,100], also when data is insufficient.
C21_StrengthWithinBounds ==
    (last.op = "generate_trading_signal" /\ last.signal # None) =>
        /\ "signal_strength" \in DOMAIN last.signal[1]
        /\ last.signal[1].signal_strength \in 0..100

\* the action of the rule: BUY above +0.3% and SELL below -0.3%, both with
\* medium or high confidence, HOLD otherwise; pct is the pair
\* <<numerator, denominator>> of the percentage change
ActionByRule(pct, confidence) ==
    IF 10 * pct[1] > 3 * pct[2] /\ confidence \in {"medium", "high"} THEN "BUY"
    ELSE IF 10 * pct[1] < -3 * pct[2] /\ confidence \in {"medium", "high"} THEN "SELL"
    ELSE "HOLD"

\* C22: a signal computed from a forecast is BUY exactly when the forecast's
\* percentage change exceeds +0.3% and its confidence is medium or high, SELL
\* exactly when it is below -0.3% under the same condition, and HOLD otherwise.
C22_ActionFollowsThreshold ==
    (last.op = "generate_trading_signal" /\ last.signal # None
        /\ last.forecast # None) =>
        LET f == last.forecast[1]
            pct == IF "price_change_pct" \in DOMAIN f
                   THEN <<RoundFrac(Frac(100 * f.price_change_pct[1],
                                         f.price_change_pct[2])), 100>>
                   ELSE <<100 * (f.prediction - f.current_price), f.current_price>>
        IN  last.signal[1].signal = ActionByRule(pct, f.confidence)

(***************************************************************************)
(* The range of the ensemble's weights (SpecForecasters).                  *)
(***************************************************************************)
\* a weight within [0,1]
WeightInUnit(w) == 0 <= w.num /\ w.num <= w.den

\* C29 as stated: after any sequence of update_weights calls with positive,
\* zero or negative scores, both weights lie within [0,1].
C29_WeightsWithinUnitInterval ==
    WeightInUnit(kalman_weight) /\ WeightInUnit(automl_weight)

\* C29 amended: a call whose two scores are >= 0 leaves weights that were
\* within [0,1] within [0,1]; a call with a positive sum and one negative
\* score puts the weight of the negative score below 0 and the other above 1.
C29_WeightsWithinUnitForNonNegativeScores ==
    [][last'.op = "update_weights" =>
          LET a == last'.kalman_effectiveness
              b == last'.automl_effectiveness
          IN  /\ (a >= 0 /\ b >= 0 /\ WeightInUnit(kalman_weight)
                    /\ WeightInUnit(automl_weight)) =>
                      (WeightInUnit(kalman_weight') /\ WeightInUnit(automl_weight'))
              /\ (a + b > 0 /\ a < 0) =>
                      (kalman_weight'.num < 0 /\ automl_weight'.num > automl_weight'.den)
              /\ (a + b > 0 /\ b < 0) =>
                      (automl_weight'.num < 0 /\ kalman_weight'.num > kalman_weight'.den)
     ]_vars

\* C29 witness: a call with the scores 0 and 3 has set the weights to the two
\* ends of the interval, 0 and 1
C29_Witness ==
    /\ last.op = "update_weights"
    /\ last.kalman_effectiveness = 0
    /\ last.automl_effectiveness = 3
    /\ kalman_weight = Frac(0, 1)
    /\ automl_weight = Frac(1, 1)
    /\ use_automl

(***************************************************************************)
(* The number of polling threads (SpecMonitor).                            *)
(***************************************************************************)
\* the polling threads that are inside the loop of monitorear_background
Pollers == {t \in Threads : mon_pc[t] \in {"loop", "fetched"}}

\* C27 as stated: whatever start() and stop() calls are made, at most one
\* polling thread is appending to the monitor's history at any time.
C27_AtMostOnePoller ==
    Cardinality(Pollers) <= 1

(***************************************************************************)
(* The sample a validation picks (Spec).                                   *)
(***************************************************************************)
\* C25 as stated: the price validate_predictions gets from
\* _find_closest_price for a record is the price of a sample whose timestamp
\* is closest to the record's target time among the samples within 30
\* seconds of it, and no price when no sample is within 30 seconds.
C25_ClosestSampleWithinTolerance ==
    [][last'.op = "validate_predictions" =>
          LET historial_dict == HistorialDict(historial)
          IN  \A i \in 1..Len(predictions) :
                (~predictions[i].validated /\ now >= TargetTime(predictions[i])) =>
                  LET target_time == TargetTime(predictions[i])
                      near == {k \in 1..Len(historial_dict) :
                                 Abs(historial_dict[k].ts - target_time) <= Tolerance}
                      closest == {k \in near : \A j \in near :
                                     Abs(historial_dict[k].ts - target_time)
                                        <= Abs(historial_dict[j].ts - target_time)}
                  IN  IF near = {}
                      THEN ~predictions'[i].validated
                      ELSE /\ predictions'[i].validated
                           /\ \E k \in closest :
                                predictions'[i].actual_price
                                    = Some(historial_dict[k].price)
     ]_vars

(***************************************************************************)
(* Properties of the cached model of AutoMLForecaster (SpecAutoML).        *)
(***************************************************************************)
\* the prediction and the velocity of two results are the same
SameForecast(r1, r2) ==
    /\ r1[1].prediction = r2[1].prediction
    /\ r1[1].velocity = r2[1].velocity

\* C24 as stated: a forecast depends on the history it is given only: it is
\* the forecast a new forecaster returns for that history, whatever calls
\* were made on the instance before, and a call that follows a call on the
\* unchanged history returns the same prediction and velocity.
C24_ForecastDependsOnHistoryOnly ==
    /\ []((last.op = "automl_forecast" /\ last.result # None) =>
            SameForecast(last.result, last.fresh))
    /\ [][(last'.op = "automl_forecast" /\ last'.result # None
             /\ last.op = "automl_forecast" /\ last.result # None) =>
            SameForecast(last'.result, last.result)]_vars

\* C24 amended: a call that follows a call on the unchanged history returns
\* the same prediction and velocity; a call that fits the model (none held, or
\* the history is 10 or more samples longer than at the last fit) returns what
\* a new forecaster returns; any other call returns the forecast of the model
\* it holds, fitted on an earlier history, and leaves that model as it is.
C24_ForecastOfHeldModel ==
    [][(last'.op = "automl_forecast" /\ last'.result # None) =>
          /\ (last.op = "automl_forecast" /\ last.result # None) =>
                SameForecast(last'.result, last.result)
          /\ IF automl_model = None
                \/ Len(historial) - last_train_size >= RetrainEvery
             THEN /\ SameForecast(last'.result, last'.fresh)
                  /\ last_train_size' = Len(historial)
                  /\ automl_trained'.behind = 0
             ELSE /\ last'.result[1].prediction = ArimaPredict(automl_trained)
                  /\ automl_trained' = automl_trained
                  /\ last_train_size' = last_train_size
      ]_vars

\* C24 witness: a call on a history that grew since the model was fitted, but
\* by fewer than 10 samples, returns the held model's forecast, which is not
\* the forecast of a new forecaster
C24_Witness ==
    /\ last.op = "automl_forecast"
    /\ last.result # None
    /\ ~last.retrained
    /\ automl_trained.behind > 0
    /\ last.result[1].prediction # last.fresh[1].prediction
    /\ Len(historial) < HistMaxLen

\* C28 as stated: whenever AutoMLForecaster.forecast returns a forecast, the
\* model that made it was fitted on a history at most 9 samples behind the
\* current one, also once the history is at its capacity.
C28_ModelAtMostNineBehind ==
    (last.op = "automl_forecast" /\ last.result # None) =>
        automl_trained.behind <= RetrainEvery - 1

(***************************************************************************)
(* Properties of concurrent validations (SpecValidate).                    *)
(***************************************************************************)
\* C26 as stated: each prediction record is copied into the validated buffer
\* at most once, also when validate_predictions runs in several threads.
C26_ValidatedAtMostOnce ==
    \A i, j \in 1..Len(validated_predictions) :
        i # j => validated_predictions[i].rid # validated_predictions[j].rid

(***************************************************************************)
(* Properties of a pass of the forecasting loop (SpecPass).                *)
(***************************************************************************)
\* C30 as stated: within one pass of the forecasting loop, an exception
\* raised while one symbol is processed does not keep the loop from going on
\* to the remaining symbols of that pass.
C30_PassGoesOnAfterException ==
    [][(last'.op = "loop_body" /\ last'.exc # None /\ loop_pos < Len(SymbolOrder)) =>
          loop_pos' = loop_pos + 1]_vars

====
